---------------------------- MODULE Spec2Model ----------------------------
(***************************************************************************)
(* A model of GRR's flow execution and task-queue subsystem:               *)
(*   grr/lib/queue_manager.py  (QueueManager, WellKnownQueueManager)       *)
(*   grr/lib/flow.py           (FlowBase, GRRFlow, Responses)              *)
(*   grr/lib/test_lib.py       (MockClient, MockWorker)                    *)
(*                                                                         *)
(* The module holds several specifications over one set of variables.     *)
(* Each specification exercises one part of the program and leaves the     *)
(* variables of the other parts at their initial values:                   *)
(*   SpecQ  the client task queue: Schedule, QueryAndOwn, Delete           *)
(*   SpecB  one queue manager buffering and flushing notifications         *)
(*   SpecN  one queue manager reading and deleting notifications in turns  *)
(*          while another process notifies the queue                       *)
(*   SpecF  the commit protocol of a flow (Flush / Close)                  *)
(*                                                                         *)
(* The data store (grr/lib/data_store.py) is not part of the sources at    *)
(* hand; its operations are modelled from their use and from the           *)
(* interface description (MultiSet, ResolvePrefix, DeleteAttributes, the   *)
(* subject lock, the notification calls).                                  *)
(***************************************************************************)
EXTENDS Integers, Sequences, FiniteSets, TLC

(***************************************************************************)
(* Bounds of the model.                                                    *)
(***************************************************************************)
MaxTime == 3
MaxTasks == 2
MaxTtl == 3
MaxPriority == 1
MaxLease == 1
MaxLimit == 2
MaxDelay == 1
NumWorkers == 2
MaxSessions == 1
MaxNotifyTime == 2
MaxStatus == 2
NumShards == 2
MaxNotifyPriority == 0
MaxFreezeDepth == 1
MaxBuffered == 2
MaxStored == 2
MaxFlushed == 1
MaxTurns == 2
MaxReasons == 1
MaxFlows == 4
MaxWork == 2
MaxResponses == 3
MaxResponseId == 2
MaxStartRequests == 2
MaxRequests == 2
MaxQueued == 3
MaxNotified == 2
MaxQueues == 2
MaxTakeSessions == 3
MaxTakePriority == 1
MaxWellKnownResponses == 3
MaxReplies == 8
MaxClientResponses == 2
MaxChain == 2
MaxUsage == 1
MaxDispatches == 4
NumManagers == 2
MaxNesting == 2
MaxPending == 1
MaxCells == 3
\* Seconds of wall-clock time that one step of `now` stands for.
SecondsPerTick == 600

\* QueueManager.notification_expiry_time
notification_expiry_time == 600

\* A frozen_timestamp of None. `x or Now()` treats None and 0 alike.
None == 0

Workers == 1..NumWorkers
TaskIds == 1..MaxTasks
Times == 1..MaxTime

VARIABLES
  now,        \* the wall clock (rdfvalue.RDFDatetime.Now(), time.time())
  tasks,      \* the queue subject of the store: column -> row
  lock,       \* the holder of the lock on the queue subject, 0 when free
  pc,         \* per worker: where it stands in QueryAndOwn
  call,       \* per worker: the arguments and locals of its QueryAndOwn
  ret,        \* the last QueryAndOwn that returned: who, how, how many tasks
  expired,    \* the counter grr_task_ttl_expired_count
  hist,       \* per task id: what happened to it (history, for the claims)
  nstore,     \* the notification cells of the store, over all shards
  shard_counter, \* QueueManager.notification_shard_counters[queue]
  nmgr,       \* the worker's QueueManager: frozen timestamp, stack, buffer
  nread,      \* the list a read returned, until the manager's next call
              \* that is not a delete
  nop,        \* the manager's last call, if it was a read or a delete
  nqueued,    \* (key, last_status) of the QueueNotification calls since Flush
  fobj,       \* the flow object a process holds in memory
  fbuf,       \* the queue mutations buffered in its runner's queue manager
  fsaved,     \* the turn whose flow state the store holds (0: no flow stored)
  fqueue,     \* the queue mutations the store holds
  fpc,        \* where the process is in Flush or Close of the flow
  fcrash,     \* the commit step the last crash came before, if any
  lcontext,   \* the stored context of the flow: lifecycle state, backtrace
  lmarker,    \* the stored PendingTermination marker: its reason, or None
  llock,      \* the lock on the flow: its holder and when the lease ends
  lobj,       \* per actor: the flow object it holds in memory
  ldisp,      \* what the last state-handler invocation did
  cstate,     \* flow tree: the stored lifecycle state of every flow
  cstack,     \* flow tree: the nested calls of TerminateFlow in progress
  cret,       \* flow tree: the running flow TerminateFlow last returned for
  clast,      \* flow tree: the flow a state handler was last run for
  wnotes,     \* worker loop: the notifications in the store
  wwork,      \* worker loop: completed requests of a flow not yet processed
  wlock,      \* worker loop: the worker that holds the lock of a flow
  wpc,        \* worker loop: where each worker is in its iteration
  rlist,      \* collator: the list of responses the caller passes
  robj,       \* collator: the Responses object
  rpc,        \* collator: "new", "built", "raised", "done" or "failed"
  rout,       \* collator: the payloads an iteration has yielded
  scall,      \* StartFlow: the arguments of the call
  spc,        \* StartFlow: the statement that runs next
  sflow,      \* StartFlow: the new flow object in memory
  sstore,     \* StartFlow: the stored lifecycle state of the flow
  squeue,     \* StartFlow: what the call has written to the queues
  saudit,     \* StartFlow: an audit event was published
  pstore,     \* write path: the requests, responses, client messages and
              \* notifications the store holds
  pbuf,       \* write path: the buffers of one QueueManager
  pflushed,   \* write path: the store as the last Flush left it
  plast,      \* write path: the last call on the manager
  glast,      \* notifying: the last call of NotifyQueue
  tstore,     \* worker iteration: the notification cells of all queues
  tpc,        \* worker iteration: where MockWorker.Next is, at which queue
  tfrozen,    \* worker iteration: the frozen timestamp of its manager
  tavail,     \* worker iteration: notifications_available of the queue
  ttaken,     \* worker iteration: what it took, queue by queue (history)
  kstore,     \* well-known flow: its responses in the store
  kpc,        \* well-known flow: where the worker is in its turn
  kfrozen,    \* well-known flow: the frozen timestamp of the turn's manager
  kmessages,  \* well-known flow: the responses the fetch has collected
  kpending,   \* well-known flow: the tasks of the thread pool not yet run
  khist,      \* well-known flow: responses written, removed by the turn,
              \* and how often each was handed to ProcessMessage (history)
  amessage,   \* client action: the request message it was constructed with
  aobj,       \* client action: the ActionPlugin object
  asent,      \* client action: the replies sent, in send order
  einput,     \* test harness: the client mock, the flow and the worker's mode
  estore,     \* test harness: the flow, its request, task and notification
  ehelper,    \* test harness: the position of TestFlowHelper and its counts
  ucontext,   \* resource usage: the cumulative usage in the flow's context
  uhist,      \* resource usage: what the dispatched statuses reported (history)
  mpc,        \* Flush in steps: the statement Flush is at, 0 outside Flush
  mflush,     \* Flush in steps: the store as it was when Flush was called
  zmgr,       \* managers: frozen timestamp, list object and buffer of each
  zlists,     \* managers: the list objects holding previous frozen timestamps
  zghost,     \* managers: the Freeze calls of each not yet matched (history)
  zlast,      \* managers: the last call and what it did (history)
  hstore,     \* reading notifications: the cells of the store
  hreads      \* reading notifications: the reads made of it, in order

qvars == <<now, tasks, lock, pc, call, ret, expired, hist>>

nvars == <<nstore, shard_counter, nmgr, nread, nop, nqueued>>

fvars == <<fobj, fbuf, fsaved, fqueue, fpc, fcrash>>

lvars == <<lcontext, lmarker, llock, lobj, ldisp>>

cvars == <<cstate, cstack, cret, clast>>

wvars == <<wnotes, wwork, wlock, wpc>>

rvars == <<rlist, robj, rpc, rout>>

svars == <<scall, spc, sflow, sstore, squeue, saudit>>

pvars == <<pstore, pbuf, pflushed, plast>>

\* The variables of the specifications at the end.
gvars == <<glast>>

tvars == <<tstore, tpc, tfrozen, tavail, ttaken>>

kvars == <<kstore, kpc, kfrozen, kmessages, kpending, khist>>

avars == <<amessage, aobj, asent>>

evars == <<einput, estore, ehelper>>

uvars == <<ucontext, uhist>>

mvars == <<mpc, mflush>>

zvars == <<zmgr, zlists, zghost, zlast>>

hvars == <<hstore, hreads>>

yvars == <<pvars, gvars, tvars, kvars, avars, evars, uvars, mvars, zvars, hvars>>

hothers == <<pvars, gvars, tvars, kvars, avars, evars, uvars, mvars, zvars>>

zothers == <<pvars, gvars, tvars, kvars, avars, evars, uvars, mvars, hvars>>

mothers == <<pvars, gvars, tvars, kvars, avars, evars, uvars, zvars, hvars>>

eothers == <<pvars, gvars, tvars, kvars, avars, uvars, mvars, zvars, hvars>>

uothers == <<pvars, gvars, tvars, kvars, avars, evars, mvars, zvars, hvars>>

\* The groups of yvars that the write path leaves alone.
pothers == <<gvars, tvars, kvars, avars, evars, uvars, mvars, zvars, hvars>>

\* The groups of yvars that notifying a queue leaves alone.
gothers == <<pvars, tvars, kvars, avars, evars, uvars, mvars, zvars, hvars>>

\* The groups of yvars that an iteration of the worker leaves alone.
tothers == <<pvars, gvars, kvars, avars, evars, uvars, mvars, zvars, hvars>>

\* The groups of yvars that a turn of a well-known flow leaves alone.
kothers == <<pvars, gvars, tvars, avars, evars, uvars, mvars, zvars, hvars>>

\* The groups of yvars that a client action leaves alone.
aothers == <<pvars, gvars, tvars, kvars, evars, uvars, mvars, zvars, hvars>>

\* The variables of the specifications further down.
xgroups == <<lvars, cvars, wvars, rvars, svars>>

xvars == <<xgroups, yvars>>

\* The groups of xvars that the lifecycle of one flow leaves alone.
lothers == <<cvars, wvars, rvars, svars, yvars>>

\* The groups of xvars that the flow tree leaves alone.
cothers == <<lvars, wvars, rvars, svars, yvars>>

\* The groups of xvars that the worker loop leaves alone.
wothers == <<lvars, cvars, rvars, svars, yvars>>

\* The groups of xvars that the collator leaves alone.
rothers == <<lvars, cvars, wvars, svars, yvars>>

\* The groups of xvars that StartFlow leaves alone.
sothers == <<lvars, cvars, wvars, rvars, yvars>>

vars == <<qvars, nvars, fvars, xvars>>

\* What the notification specifications leave alone.
notn == <<fvars, xvars>>

\* What the task queue specification leaves alone.
notq == <<nvars, fvars, xvars>>

(***************************************************************************)
(* Sequences helpers.                                                      *)
(***************************************************************************)
Range(s) == {s[i] : i \in DOMAIN s}

\* All orders in which the elements of a finite set can be listed.
Perms(S) ==
  {s \in [1..Cardinality(S) -> S] : \A x \in S : \E i \in DOMAIN s : s[i] = x}

(***************************************************************************)
(* QueueManager._TaskIdToColumn: "task:" + "%08d" % task_id.  The column   *)
(* is the list of the decimal digits of the id, left-padded with zeros to  *)
(* eight places (ids of more than eight digits do not occur here).         *)
(***************************************************************************)
TaskIdToColumn(task_id) ==
  [i \in 1..8 |-> (task_id \div (10 ^ (8 - i))) % 10]

Columns == {TaskIdToColumn(i) : i \in TaskIds}

\* The task id a column was made from (FromSerializedString keeps it in the
\* message; used to find the history entry of a row).
ColumnToTaskId(col) == CHOOSE i \in TaskIds : TaskIdToColumn(i) = col

(***************************************************************************)
(* The store's queue subject.  A row is a versioned attribute with         *)
(* replace=True: one value and one timestamp per column.                   *)
(***************************************************************************)
NoRow == [present |-> FALSE, task_id |-> 0, priority |-> 0, task_ttl |-> 0,
          ts |-> 0]

Row(task_id, priority, task_ttl, ts) ==
  [present |-> TRUE, task_id |-> task_id, priority |-> priority,
   task_ttl |-> task_ttl, ts |-> ts]

\* data_store.DeleteAttributes(subject, predicates).
DeleteAttributes(store, predicates) ==
  [c \in DOMAIN store |-> IF c \in predicates THEN NoRow ELSE store[c]]

\* data_store.MultiSet(subject, values, replace=True, timestamp, to_delete):
\* `values` maps columns to messages; timestamp None means the store's now.
MultiSet(store, values, timestamp, to_delete) ==
  [c \in DOMAIN store |->
     IF c \in DOMAIN values
       THEN Row(values[c].task_id, values[c].priority, values[c].task_ttl,
                IF timestamp = None THEN now ELSE timestamp)
     ELSE IF c \in to_delete THEN NoRow
     ELSE store[c]]

\* data_store.ResolvePrefix(subject, "task:", timestamp=(start, end)): the
\* columns whose value carries a timestamp in the closed range.
ResolvePrefix(store, start, end) ==
  {c \in DOMAIN store :
     store[c].present /\ start <= store[c].ts /\ store[c].ts <= end}

(***************************************************************************)
(* QueueManager.FreezeTimestamp / UnfreezeTimestamp on one manager.        *)
(***************************************************************************)
\* QueueManager.__init__: nothing frozen, nothing buffered.  `notifications`
\* is the dict of buffered notifications, a set of (key, value) items.
NewManager == [frozen_timestamp |-> None, prev_frozen_timestamps |-> <<>>,
               notifications |-> {}]

FreezeTimestamp(m, t) ==
  [m EXCEPT !.frozen_timestamp = t,
            !.prev_frozen_timestamps = Append(@, m.frozen_timestamp)]

\* The variant of UnfreezeTimestamp that takes the oldest entry.
UnfreezeTimestampOldest(m) ==
  IF m.prev_frozen_timestamps = <<>> THEN m ELSE
  [m EXCEPT !.frozen_timestamp = m.prev_frozen_timestamps[1],
            !.prev_frozen_timestamps = SubSeq(@, 2, Len(@))]

\* With an empty stack the call raises RuntimeError and changes nothing.
UnfreezeTimestamp(m) ==
  IF m.prev_frozen_timestamps = <<>> THEN m ELSE
  [m EXCEPT !.frozen_timestamp =
              m.prev_frozen_timestamps[Len(m.prev_frozen_timestamps)],
            !.prev_frozen_timestamps = SubSeq(@, 1, Len(@) - 1)]

\* `self.frozen_timestamp or rdfvalue.RDFDatetime.Now()`.
Snapshot(frozen_timestamp) ==
  IF frozen_timestamp # None THEN frozen_timestamp ELSE now

(***************************************************************************)
(* Notifications: the records, the store's notification cells, and the     *)
(* state every specification starts the notification side in.              *)
(***************************************************************************)
SessionIds == 1..MaxSessions

\* Shard 0 is the queue itself, shard i > 0 is queue.Add(str(i)).
Shards == 0..(NumShards - 1)

\* rdf_flows.GrrNotification: an unset session id, first_queued or timestamp
\* is None.
GrrNotification(session_id, priority, last_status) ==
  [session_id |-> session_id, priority |-> priority,
   last_status |-> last_status, first_queued |-> None, timestamp |-> None]

\* The store keeps one cell per (shard, session id, timestamp); writing a
\* notification without a timestamp stamps it with the store's clock, and a
\* notification read back carries the timestamp of its cell.
CreateNotification(store, queue_shard, notification) ==
  LET ts == IF notification.timestamp = None THEN now
            ELSE notification.timestamp
      cell == [shard |-> queue_shard,
               n |-> [notification EXCEPT !.timestamp = ts]]
  IN {x \in store : ~(/\ x.shard = queue_shard
                      /\ x.n.session_id = notification.session_id
                      /\ x.n.timestamp = ts)} \cup {cell}

RECURSIVE CreateNotifications(_, _, _)
CreateNotifications(store, queue_shard, notifications) ==
  IF notifications = <<>> THEN store
  ELSE CreateNotifications(
         CreateNotification(store, queue_shard, Head(notifications)),
         queue_shard, Tail(notifications))

\* The cells of the given shards with a timestamp up to `end`.
GetNotifications(store, queue_shards, end) ==
  {x \in store : x.shard \in queue_shards /\ x.n.timestamp <= end}

\* data_store.DeleteNotifications(queue_shards, session_ids, start, end).
StoreDeleteNotifications(store, queue_shards, session_ids, start, end) ==
  {x \in store : ~(/\ x.shard \in queue_shards
                   /\ x.n.session_id \in session_ids
                   /\ start <= x.n.timestamp
                   /\ x.n.timestamp <= end)}

NoOp == [op |-> "none", default_end |-> FALSE, end |-> None, removed |-> {}]

\* No flow object is held in memory.
NoFlow == [open |-> FALSE, mode |-> "", turn |-> 0, context |-> FALSE,
           dirty |-> FALSE, lease |-> None]

Idle == [op |-> "idle", i |-> 0]

InitFvars ==
  /\ fobj = NoFlow
  /\ fbuf = {}
  /\ fsaved = 0
  /\ fqueue = {}
  /\ fpc = Idle
  /\ fcrash = ""

(***************************************************************************)
(* The lifecycle of one flow: the state every specification starts it in.  *)
(***************************************************************************)
\* Actor 0 is a caller of TerminateFlow, the others are workers.
Terminator == 0

Actors == {Terminator} \cup Workers

NoHolder == -1

\* Why a flow ended in ERROR: the reason of a PendingTermination marker
\* (1..MaxReasons), an exception of a state handler, or TerminateFlow.
Reasons == 1..MaxReasons

HandlerRaised == -1

ManualTermination == -2

\* An actor that holds no flow object.
NoObject == [open |-> FALSE, mode |-> "", state |-> "", backtrace |-> None,
             lease |-> None]

NoDispatch == [actor |-> NoHolder, direct |-> FALSE,
               checked |-> FALSE, pending |-> None,
               built |-> FALSE, usage |-> FALSE, ran |-> FALSE]

\* The flow is stored and RUNNING, nobody holds it, no marker is set.
InitLvars ==
  /\ lcontext = [state |-> "RUNNING", backtrace |-> None]
  /\ lmarker = None
  /\ llock = [holder |-> NoHolder, until |-> 0]
  /\ lobj = [a \in Actors |-> NoObject]
  /\ ldisp = NoDispatch

\* The flows of one tree: flow 1 is the root, flow f was started by flow
\* f \div 2 (CallFlow).
Flows == 1..MaxFlows

Parent(f) == f \div 2

\* All flows of the tree are stored and RUNNING, TerminateFlow has not been
\* called.
InitCvars ==
  /\ cstate = [f \in Flows |-> "RUNNING"]
  /\ cstack = <<>>
  /\ cret = None
  /\ clast = [flow |-> None, flip |-> FALSE]

\* A worker between two iterations.
Waiting == [op |-> "idle", session |-> None, timestamp |-> None]

\* No flow has completed requests, no notification is stored, no flow is
\* locked, every worker is between two iterations.
InitWvars ==
  /\ wnotes = {}
  /\ wwork = [s \in SessionIds |-> 0]
  /\ wlock = [s \in SessionIds |-> NoHolder]
  /\ wpc = [w \in Workers |-> Waiting]

\* A Responses object before its constructor has run.
NoResponses == [status |-> "none", success |-> TRUE, responses |-> <<>>,
                dropped |-> <<>>, iterator |-> None, auth_required |-> TRUE]

\* No collator has been constructed and no list of responses is at hand.
InitRvars ==
  /\ rlist = <<>>
  /\ robj = NoResponses
  /\ rpc = "new"
  /\ rout = <<>>

\* StartFlow has not been called.
NoStart == [known |-> FALSE, token |-> FALSE, valid |-> FALSE,
            leftover |-> FALSE, sync |-> FALSE, start_time |-> FALSE,
            parent |-> FALSE, requests |-> 0, outcome |-> ""]

\* No flow object has been created.
NoNewFlow == [created |-> FALSE, state |-> "", backtrace |-> None,
              outstanding |-> 0, buffered |-> {}, started |-> FALSE]

\* No call of StartFlow is in progress, nothing of the flow is stored or
\* queued.
InitSvars ==
  /\ scall = NoStart
  /\ spc = [op |-> "idle", i |-> 0]
  /\ sflow = NoNewFlow
  /\ sstore = "none"
  /\ squeue = {}
  /\ saudit = FALSE

Requests == 1..MaxRequests

\* A QueueManager as constructed: nothing buffered.
NoBuffers ==
  [request_queue |-> {}, response_queue |-> {}, requests_to_delete |-> {},
   client_messages_to_delete |-> {}, new_client_messages |-> {},
   notifications |-> {}]

\* The store holding the requests `stored`, each with its responses and
\* with its message on the client queue.
StoreOf(stored) ==
  [requests |-> stored, responses |-> stored, client_messages |-> stored,
   notifications |-> {}]

InitPvars ==
  /\ pstore = StoreOf({})
  /\ pbuf = NoBuffers
  /\ pflushed = pstore
  /\ plast = "none"

\* NotifyQueue has not been called.
NoNotify == [called |-> FALSE, notification |-> None, at |-> 0,
             frozen |-> None, shard |-> 0, before |-> {}]

InitGvars == glast = NoNotify

InitTvars ==
  /\ tstore = {}
  /\ tpc = [op |-> "idle", queue |-> 0]
  /\ tfrozen = None
  /\ tavail = <<>>
  /\ ttaken = <<>>

ResponseNumbers == 1..MaxWellKnownResponses

InitKvars ==
  /\ kstore = {}
  /\ kpc = "idle"
  /\ kfrozen = None
  /\ kmessages = <<>>
  /\ kpending = {}
  /\ khist = [written |-> {}, removed |-> {},
              processed |-> [i \in ResponseNumbers |-> 0],
              raised |-> {}, errors |-> 0]

\* INITIAL_RESPONSE_ID of client/actions.py
INITIAL_RESPONSE_ID == 1

\* The request message of a client action: are its arguments of the type the
\* action expects, is it authenticated, is the action an IteratedAction.
ActionMessages ==
  [args_ok : BOOLEAN, authenticated : BOOLEAN, iterated : BOOLEAN]

\* ActionPlugin.__init__
NewAction == [response_id |-> INITIAL_RESPONSE_ID, status |-> "", pc |-> "new"]

InitAvars ==
  /\ amessage = [args_ok |-> TRUE, authenticated |-> TRUE, iterated |-> FALSE]
  /\ aobj = NewAction
  /\ asent = <<>>

\* What a run of TestFlowHelper is given: what the client mock does with a
\* request (returns `responses` responses, raises, or is a mock of a crashed
\* client that enforces no status), how many client requests the flow issues
\* one after the other, whether its next-state handler raises, and the
\* check_flow_errors argument.
HelperInputs ==
  [mock : {"returns", "raises", "crashed"}, responses : 0..MaxClientResponses,
   requests : 1..MaxChain, handler : {"return", "raise"},
   check_flow_errors : BOOLEAN]

\* No flow started yet.
NoRun ==
  [state |-> "NONE", task |-> "none", request |-> 0, responses |-> <<>>,
   notified |-> FALSE, issued |-> 0, handled |-> 0]

InitEvars ==
  /\ einput = [mock |-> "returns", responses |-> 0, requests |-> 1,
               handler |-> "return", check_flow_errors |-> TRUE]
  /\ estore = NoRun
  /\ ehelper = [pc |-> "start", client_processed |-> 0, flows_run |-> {},
                total_flows |-> {}]

\* No CPU seconds and no network bytes.
NoUsage == [cpu |-> 0, net |-> 0]

InitUvars ==
  /\ ucontext = NoUsage
  /\ uhist = [ok |-> NoUsage, failed |-> NoUsage, n |-> 0]

InitMvars ==
  /\ mpc = 0
  /\ mflush = StoreOf({})

Managers == 1..NumManagers

\* No call made yet.
NoManagerCall ==
  [op |-> "none", mgr |-> 0, raised |-> FALSE, matched |-> FALSE,
   expected |-> None, turn |-> None, flushed |-> None, written |-> 0,
   exc |-> FALSE]

\* Manager 1 is constructed, with its own empty list; the others are the
\* results of Copy calls still to come.
InitZvars ==
  /\ zmgr = [i \in Managers |->
               [live |-> i = 1, frozen_timestamp |-> None, stack |-> i,
                pending |-> 0]]
  /\ zlists = [l \in Managers |-> <<>>]
  /\ zghost = [i \in Managers |-> <<>>]
  /\ zlast = NoManagerCall

InitHvars ==
  /\ hstore = {}
  /\ hreads = <<>>

InitYvars ==
  /\ InitPvars /\ InitGvars /\ InitTvars /\ InitKvars
  /\ InitHvars
  /\ InitZvars
  /\ InitMvars
  /\ InitUvars
  /\ InitEvars
  /\ InitAvars

InitXgroups ==
  InitLvars /\ InitCvars /\ InitWvars /\ InitRvars /\ InitSvars

InitXvars == InitXgroups /\ InitYvars

InitNvars ==
  /\ nstore = {}
  /\ shard_counter = 0
  /\ nmgr = NewManager
  /\ nread = <<>>
  /\ nop = NoOp
  /\ nqueued = {}

(***************************************************************************)
(* The task queue: SpecQ.                                                  *)
(***************************************************************************)
NoCall == [lease_seconds |-> 0, limit |-> 0, snapshot |-> 0,
           tasks |-> <<>>, delete_attrs |-> {}]

\* ttl0: the TTL the task was scheduled with (0: not scheduled yet);
\* sched_ts: the timestamp Schedule wrote, kept until the first lease;
\* n: how many QueryAndOwn calls returned the task; leases: the ends of
\* the leases those calls granted that have not passed yet; deleted: Delete
\* was called for it; dropped: a scan found its TTL exhausted.
NoHist == [ttl0 |-> 0, sched_ts |-> 0, n |-> 0, leases |-> <<>>,
           deleted |-> FALSE, dropped |-> FALSE]

RECURSIVE Unexpired(_, _)
Unexpired(leases, t) ==
  IF leases = <<>> THEN <<>>
  ELSE IF Head(leases) > t THEN <<Head(leases)>> \o Unexpired(Tail(leases), t)
  ELSE Unexpired(Tail(leases), t)

InitQvars ==
  /\ now = 1
  /\ tasks = [c \in Columns |-> NoRow]
  /\ lock = 0
  /\ pc = [w \in Workers |-> "idle"]
  /\ call = [w \in Workers |-> NoCall]
  /\ ret = [w |-> 0, kind |-> "none", n |-> 0]
  /\ expired = 0
  /\ hist = [i \in TaskIds |-> NoHist]

InitQ == InitQvars /\ InitNvars /\ InitFvars /\ InitXvars

\* Time passes.
Tick ==
  /\ now < MaxTime
  /\ now' = now + 1
  /\ hist' = [i \in TaskIds |->
                [hist[i] EXCEPT !.leases = Unexpired(@, now + 1)]]
  /\ UNCHANGED <<tasks, lock, pc, call, ret, expired>>

\* The managers of the callers are inputs of the calls here: a call is made
\* on a manager that is not frozen (None) or was frozen at some earlier time.
FrozenTimestamps == {None} \cup 1..now

\* QueueManager.Schedule(tasks, timestamp) without a mutation pool, for one
\* freshly created message (task ids are never reused).
ScheduleTimestampNow(frozen_timestamp, timestamp) == now

ScheduleTimestamp(frozen_timestamp, timestamp) ==
  IF timestamp = None THEN frozen_timestamp ELSE timestamp

Schedule(frozen_timestamp, task_id, priority, task_ttl, timestamp) ==
  /\ hist[task_id].ttl0 = 0
  /\ LET ts == ScheduleTimestamp(frozen_timestamp, timestamp)
         to_schedule ==
           [c \in {TaskIdToColumn(task_id)} |->
              [task_id |-> task_id, priority |-> priority,
               task_ttl |-> task_ttl]]
     IN /\ tasks' = MultiSet(tasks, to_schedule, ts, {})
        /\ hist' = [hist EXCEPT ![task_id].ttl0 = task_ttl,
                                ![task_id].sched_ts =
                                   IF timestamp # None THEN timestamp
                                   ELSE Snapshot(frozen_timestamp)]
  /\ UNCHANGED <<now, lock, pc, call, ret, expired>>

\* QueueManager.Delete(queue, tasks) without a mutation pool.  It takes no
\* lock.
DeleteColumnsDropQueue(ids) == Columns

DeleteColumns(ids) == {TaskIdToColumn(i) : i \in ids}

DeleteResult(store, ids) == DeleteAttributes(store, DeleteColumns(ids))

Delete(ids) ==
  /\ tasks' = DeleteResult(tasks, ids)
  /\ hist' = [i \in TaskIds |->
                IF i \in ids /\ hist[i].ttl0 # 0
                  THEN [hist[i] EXCEPT !.deleted = TRUE, !.sched_ts = 0]
                  ELSE hist[i]]
  /\ UNCHANGED <<now, lock, pc, call, ret, expired>>

(***************************************************************************)
(* QueueManager.QueryAndOwn.  The call is three steps of the caller, with  *)
(* a store call in each: taking the lock on the queue subject              *)
(* (LockRetryWrapper), the scan (ResolvePrefix and the loop over its       *)
(* rows), and the write (MultiSet), after which the call returns and the   *)
(* lock object goes away.  The lock is taken to last as long as the call.  *)
(***************************************************************************)
LockFailed(w) == [w |-> w, kind |-> "lock_failed", n |-> 0]

\* The arguments of a call are its inputs; each is drawn where the call
\* first reads it (lease_seconds at the lock, the manager's frozen timestamp
\* and limit at the scan).
NewCall(lease_seconds) == [NoCall EXCEPT !.lease_seconds = lease_seconds]

\* except DBSubjectLockError: return []
QueryAndOwnLockErrorIgnored(w, lease_seconds) ==
  /\ pc' = [pc EXCEPT ![w] = "locked"]
  /\ call' = [call EXCEPT ![w] = NewCall(lease_seconds)]
  /\ UNCHANGED <<lock, ret>>

QueryAndOwnLockError(w, lease_seconds) ==
  /\ ret' = LockFailed(w)
  /\ UNCHANGED <<lock, pc, call>>

QueryAndOwnLock(w, lease_seconds) ==
  /\ pc[w] = "idle"
  /\ IF lock = 0
       THEN /\ lock' = w
            /\ pc' = [pc EXCEPT ![w] = "locked"]
            /\ call' = [call EXCEPT ![w] = NewCall(lease_seconds)]
            /\ UNCHANGED ret
       ELSE QueryAndOwnLockError(w, lease_seconds)
  /\ UNCHANGED <<now, tasks, expired, hist>>

\* task.task_ttl -= 1
DecrementTtlNot(task_ttl) == task_ttl

DecrementTtl(task_ttl) == task_ttl - 1

\* The variant of the loop that goes on after `limit` messages.
RECURSIVE QueryLoopNoBreak(_, _, _, _)
QueryLoopNoBreak(rows, limit, out, delete_attrs) ==
  IF rows = <<>>
    THEN [tasks |-> out, delete_attrs |-> delete_attrs]
    ELSE LET row == Head(rows)
             task_ttl == DecrementTtl(row.task_ttl)
         IN IF task_ttl <= 0
              THEN QueryLoopNoBreak(Tail(rows), limit, out,
                     delete_attrs \cup {TaskIdToColumn(row.task_id)})
              ELSE QueryLoopNoBreak(Tail(rows), limit,
                     Append(out, [task_id |-> row.task_id,
                                  priority |-> row.priority,
                                  task_ttl |-> task_ttl]),
                     delete_attrs)

\* The loop of _QueryAndOwn over the rows the store returned, in the order
\* it returned them: the messages to return and the columns to delete.
RECURSIVE QueryLoop(_, _, _, _)
QueryLoop(rows, limit, out, delete_attrs) ==
  IF rows = <<>>
    THEN [tasks |-> out, delete_attrs |-> delete_attrs]
    ELSE LET row == Head(rows)
             task_ttl == DecrementTtl(row.task_ttl)
         IN IF task_ttl <= 0
              THEN QueryLoop(Tail(rows), limit, out,
                             delete_attrs \cup {TaskIdToColumn(row.task_id)})
              ELSE LET out2 == Append(out, [task_id |-> row.task_id,
                                            priority |-> row.priority,
                                            task_ttl |-> task_ttl])
                   IN IF Len(out2) >= limit
                        THEN [tasks |-> out2, delete_attrs |-> delete_attrs]
                        ELSE QueryLoop(Tail(rows), limit, out2, delete_attrs)

\* The upper end of the scan: timestamp=(0, frozen_timestamp or Now()).
ScanEndExclusive(frozen_timestamp) == Snapshot(frozen_timestamp) - 1

ScanEnd(frozen_timestamp) == Snapshot(frozen_timestamp)

QueryAndOwnScan(w, frozen_timestamp, limit) ==
  /\ pc[w] = "locked"
  /\ \E order \in Perms(ResolvePrefix(tasks, 0, ScanEnd(frozen_timestamp))) :
       LET rows == [i \in DOMAIN order |-> tasks[order[i]]]
           res == QueryLoop(rows, limit, <<>>, {})
       IN /\ call' = [call EXCEPT ![w].tasks = res.tasks,
                                  ![w].delete_attrs = res.delete_attrs,
                                  ![w].limit = limit,
                                  ![w].snapshot = Snapshot(frozen_timestamp)]
          /\ expired' = expired + Cardinality(res.delete_attrs)
          /\ hist' = [i \in TaskIds |->
                        IF TaskIdToColumn(i) \in res.delete_attrs
                          THEN [hist[i] EXCEPT !.dropped = TRUE]
                          ELSE hist[i]]
  /\ pc' = [pc EXCEPT ![w] = "scanned"]
  /\ UNCHANGED <<now, tasks, lock, ret>>

\* timestamp=long(time.time() * 1e6) + lease
LeaseTimestampNoLease(lease) == now

LeaseTimestamp(lease) == now + lease

QueryAndOwnWrite(w) ==
  /\ pc[w] = "scanned"
  /\ LET c == call[w]
         serialized_tasks_dict ==
           [col \in {TaskIdToColumn(c.tasks[i].task_id) : i \in DOMAIN c.tasks}
              |-> LET i == CHOOSE j \in DOMAIN c.tasks :
                             TaskIdToColumn(c.tasks[j].task_id) = col
                  IN c.tasks[i]]
     IN /\ tasks' = IF c.delete_attrs # {} \/ DOMAIN serialized_tasks_dict # {}
                      THEN MultiSet(tasks, serialized_tasks_dict,
                                    LeaseTimestamp(c.lease_seconds),
                                    c.delete_attrs)
                      ELSE tasks
        /\ ret' = [w |-> w, kind |-> "leased", n |-> Len(c.tasks)]
        /\ hist' = [i \in TaskIds |->
                      IF \E j \in DOMAIN c.tasks : c.tasks[j].task_id = i
                        THEN [hist[i] EXCEPT
                                !.n = @ + 1, !.sched_ts = 0,
                                !.leases = Append(@, now + c.lease_seconds)]
                        ELSE hist[i]]
  /\ lock' = IF lock = w THEN 0 ELSE lock
  /\ pc' = [pc EXCEPT ![w] = "idle"]
  /\ call' = [call EXCEPT ![w] = NoCall]
  /\ UNCHANGED <<now, expired>>

NextQ ==
  \/ Tick /\ UNCHANGED notq
  \/ \E frozen_timestamp \in FrozenTimestamps, task_id \in TaskIds,
        priority \in 0..MaxPriority, task_ttl \in 1..MaxTtl,
        timestamp \in {None} \cup {now + d : d \in 0..MaxDelay} :
       /\ Schedule(frozen_timestamp, task_id, priority, task_ttl, timestamp)
       /\ UNCHANGED notq
  \/ \E ids \in (SUBSET TaskIds) \ {{}} : Delete(ids) /\ UNCHANGED notq
  \/ \E w \in Workers, lease_seconds \in 1..MaxLease :
       QueryAndOwnLock(w, lease_seconds) /\ UNCHANGED notq
  \/ \E w \in Workers, frozen_timestamp \in FrozenTimestamps,
        limit \in 1..MaxLimit :
       QueryAndOwnScan(w, frozen_timestamp, limit) /\ UNCHANGED notq
  \/ \E w \in Workers : QueryAndOwnWrite(w) /\ UNCHANGED notq

SpecQ == InitQ /\ [][NextQ]_vars

(***************************************************************************)
(* Claims about the task queue.                                            *)
(***************************************************************************)
Stored(i) == tasks[TaskIdToColumn(i)].present

StoredRow(i) == tasks[TaskIdToColumn(i)]

\* The step of worker w in which its scan runs, and the one in which its
\* QueryAndOwn returns.
ScanStep(w) == pc[w] = "locked" /\ pc'[w] = "scanned"

ReturnStep(w) == pc[w] = "scanned" /\ pc'[w] = "idle"

\* The task ids a call is about to return, and those it is about to drop.
Returned(c) == {c.tasks[j].task_id : j \in DOMAIN c.tasks}

Dropped(c) == {i \in TaskIds : TaskIdToColumn(i) \in c.delete_attrs}

C3_ReclaimState ==
  \A i \in TaskIds :
    /\ hist[i].ttl0 # 0 => hist[i].n < hist[i].ttl0
    /\ (hist[i].n >= 1 /\ ~hist[i].deleted /\ Stored(i)) =>
         IF hist[i].leases = <<>>
           THEN TaskIdToColumn(i) \in ResolvePrefix(tasks, 0, now)
           ELSE StoredRow(i).ts = hist[i].leases[1]

C3_ReclaimScan ==
  \A w \in Workers : ScanStep(w) =>
    \A i \in TaskIds :
      (/\ hist[i].n >= 1 /\ ~hist[i].deleted /\ Stored(i)
       /\ StoredRow(i).ts <= call'[w].snapshot
       /\ Len(call'[w].tasks) < call'[w].limit)
      => i \in Returned(call'[w]) \cup Dropped(call'[w])

C4_LimitAndPriorityOrder ==
  [][\A w \in Workers : ReturnStep(w) =>
       /\ Len(call[w].tasks) <= call[w].limit
       /\ \A j, k \in DOMAIN call[w].tasks :
            j < k => call[w].tasks[j].priority >= call[w].tasks[k].priority
    ]_vars

\* The columns a scan of worker w with the snapshot of its call can see.
VisibleTo(w) == ResolvePrefix(tasks, 0, call'[w].snapshot)

\* C35 as stated: a QueryAndOwn call takes every task that is visible at its
\* snapshot, to drop it or to re-write it with a decremented TTL and the
\* lease timestamp, not only the at most `limit` tasks it returns.
C35_EveryVisibleTaskTouched ==
  [][\A w \in Workers : ScanStep(w) =>
       \A col \in VisibleTo(w) :
          \/ col \in call'[w].delete_attrs
          \/ \E j \in DOMAIN call'[w].tasks :
               TaskIdToColumn(call'[w].tasks[j].task_id) = col
    ]_vars

\* C35: a QueryAndOwn call takes visible tasks only, at most `limit` of them
\* to return with the TTL decremented by one and any others to drop for an
\* exhausted TTL; on return the returned tasks are re-written with the
\* decremented TTL and the timestamp now + lease, the dropped ones are
\* gone, and every other task of the queue, visible or not, is as it was.
C35_OnlyTakenTasksTouched ==
  [][\A w \in Workers :
       /\ ScanStep(w) =>
            LET c == call'[w]
            IN /\ Len(c.tasks) <= c.limit
               /\ \A j \in DOMAIN c.tasks :
                    LET col == TaskIdToColumn(c.tasks[j].task_id)
                    IN /\ col \in VisibleTo(w)
                       /\ c.tasks[j].task_ttl = tasks[col].task_ttl - 1
                       /\ c.tasks[j].task_ttl > 0
               /\ \A col \in c.delete_attrs :
                    col \in VisibleTo(w) /\ tasks[col].task_ttl <= 1
       /\ ReturnStep(w) =>
            LET c == call[w]
            IN \A i \in TaskIds :
                 IF i \in Returned(c)
                   THEN /\ Stored(i)'
                        /\ StoredRow(i)'.ts = now + c.lease_seconds
                        /\ \E j \in DOMAIN c.tasks :
                             /\ c.tasks[j].task_id = i
                             /\ StoredRow(i)'.task_ttl = c.tasks[j].task_ttl
                 ELSE IF i \in Dropped(c) THEN ~Stored(i)'
                 ELSE StoredRow(i)' = StoredRow(i)
    ]_vars

\* A scan has taken `limit` tasks and left a task that its snapshot can see.
C35_Witness ==
  \E w \in Workers :
    /\ pc[w] = "scanned" /\ Len(call[w].tasks) = call[w].limit
    /\ \E i \in TaskIds :
         /\ TaskIdToColumn(i) \in ResolvePrefix(tasks, 0, call[w].snapshot)
         /\ i \notin Returned(call[w]) \cup Dropped(call[w])

\* C5: a QueryAndOwn that finds the lock on the queue held by another caller
\* returns the empty list and changes no task of the queue.
C5_LockFailure ==
  [][\A w \in Workers :
       (/\ pc[w] = "idle" /\ lock # 0 /\ lock # w
        /\ (pc'[w] # pc[w] \/ (ret' # ret /\ ret'.w = w)))
       => /\ pc'[w] = "idle"
          /\ ret' = LockFailed(w)
          /\ tasks' = tasks
          /\ expired' = expired
          /\ hist' = hist
    ]_vars

\* A call failed at the lock while the holder had scanned tasks it is about
\* to lease.
C5_Witness ==
  /\ ret.kind = "lock_failed"
  /\ lock # 0 /\ lock # ret.w
  /\ pc[lock] = "scanned" /\ call[lock].tasks # <<>>
  /\ \E i \in TaskIds : Stored(i)

\* C6: Delete is idempotent.  From every state of the queue and for every
\* list of tasks: deleting tasks that are not stored changes nothing, a
\* second Delete of the same tasks changes nothing more, and the tasks the
\* call does not name keep their rows.
C6_DeleteIdempotent ==
  \A ids \in SUBSET TaskIds :
    LET once == DeleteResult(tasks, ids)
    IN /\ DeleteResult(once, ids) = once
       /\ (\A i \in ids : ~Stored(i)) => once = tasks
       /\ \A i \in TaskIds \ ids : once[TaskIdToColumn(i)] = StoredRow(i)
       /\ \A i \in ids : ~once[TaskIdToColumn(i)].present

\* One task was deleted and is gone while the other is still stored.
C6_Witness ==
  \E i, j \in TaskIds :
    /\ i # j /\ hist[i].deleted /\ ~Stored(i)
    /\ Stored(j) /\ ~hist[j].deleted

\* C7: a task scheduled with timestamp t is not taken up by a scan whose
\* snapshot (frozen timestamp or now) is before t, and is taken up by a scan
\* whose snapshot is at or after t unless the scan stopped at its limit.
C7_ScheduledVisibility ==
  [][\A w \in Workers : ScanStep(w) =>
       \A i \in TaskIds :
         (hist[i].sched_ts # 0 /\ Stored(i)) =>
           /\ i \in Returned(call'[w]) \cup Dropped(call'[w])
                => hist[i].sched_ts <= call'[w].snapshot
           /\ (/\ hist[i].sched_ts <= call'[w].snapshot
               /\ Len(call'[w].tasks) < call'[w].limit)
                => i \in Returned(call'[w]) \cup Dropped(call'[w])
    ]_vars

\* A scan that returned a task scheduled at its snapshot and left one
\* scheduled for later.
C7_Witness ==
  \E w \in Workers, i, j \in TaskIds :
    /\ pc[w] = "scanned"
    /\ hist[i].sched_ts # 0 /\ hist[i].sched_ts = call[w].snapshot
    /\ i \in Returned(call[w])
    /\ hist[j].sched_ts > call[w].snapshot /\ Stored(j)
    /\ j \notin Returned(call[w])

(***************************************************************************)
(* Notifications: SpecN.  One worker's QueueManager queues, flushes, reads *)
(* and deletes notifications of one queue while another process writes     *)
(* notifications of its own to the same queue.  In this specification the  *)
(* manager's request, response and client message buffers stay empty, so   *)
(* Flush has only the notifications to write.                              *)
(***************************************************************************)
qrest == <<tasks, lock, pc, call, ret, expired, hist>>

InitN == InitQvars /\ InitNvars /\ InitFvars /\ InitXvars

\* `ts_str`: "None" for no timestamp, int(timestamp) otherwise.  Timestamps
\* are whole numbers of at least 1 here, and None stands for "None".
TsStr(timestamp) == IF timestamp = None THEN None ELSE timestamp

\* "%s!%s" % (session_id, ts_str)
NotificationKey(session_id, timestamp) == <<session_id, TsStr(timestamp)>>

ReplacesExistingAlways(existing, notification) == TRUE

\* `existing.last_status < notification.last_status`
ReplacesExisting(existing, notification) ==
  existing.last_status < notification.last_status

\* QueueManager.QueueNotification on manager m; the result is the manager.
QueueNotification(m, notification, timestamp) ==
  IF notification.session_id = None THEN m ELSE
  LET ts == IF timestamp = None THEN m.frozen_timestamp ELSE timestamp
      queued == [notification EXCEPT !.timestamp = ts]
      key == NotificationKey(notification.session_id, ts)
      found == {e \in m.notifications : e.key = key}
      item == [key |-> key, value |-> queued]
  IN IF found = {}
     THEN [m EXCEPT !.notifications = @ \cup {item}]
     ELSE LET existing == CHOOSE e \in found : TRUE
          IN IF ReplacesExisting(existing.value, queued)
             THEN [m EXCEPT !.notifications = (@ \ found) \cup {item}]
             ELSE m

\* The notifications a caller passes in: a new one built from keyword
\* arguments (its session id may be empty), or one that was read from the
\* queue at some time before and so has its first_queued set.
QueueableNotifications ==
  {[GrrNotification(session_id, priority, last_status)
      EXCEPT !.first_queued = first_queued] :
     session_id \in {None} \cup SessionIds,
     priority \in 0..MaxNotifyPriority, last_status \in 1..MaxStatus,
     first_queued \in {None} \cup 1..now}

QueueNotificationCall(notification, timestamp) ==
  /\ nmgr' = QueueNotification(nmgr, notification, timestamp)
  /\ Cardinality(nmgr'.notifications) <= MaxBuffered
  /\ nqueued' =
       IF notification.session_id = None THEN nqueued
       ELSE nqueued \cup
              {<<NotificationKey(notification.session_id,
                                 IF timestamp = None
                                 THEN nmgr.frozen_timestamp ELSE timestamp),
                 notification.last_status>>}
  /\ nread' = <<>>
  /\ nop' = NoOp
  /\ UNCHANGED <<now, qrest, nstore, shard_counter>>

\* The variant that keeps a notification of exactly the expiry age.
NotificationExpiredLater(first_queued) ==
  (now - first_queued) * SecondsPerTick > notification_expiry_time

\* `diff.seconds >= self.notification_expiry_time`
NotificationExpired(first_queued) ==
  (now - first_queued) * SecondsPerTick >= notification_expiry_time

\* The variant that spreads over one shard more than the queue has.
GetNotificationShardBeyond(counter) == (counter + 1) % (NumShards + 1)

\* QueueManager.GetNotificationShard: the counter of the queue goes up by
\* one and its residue picks the shard; only the residue is kept.
GetNotificationShard(counter) == (counter + 1) % NumShards

\* QueueManager.NotifyQueue -> _MultiNotifyQueue with the one notification,
\* on st = [store, counter].
NotifyQueue(st, m, notification) ==
  LET notification_list ==
        IF notification.first_queued = None
        THEN <<[notification EXCEPT
                  !.first_queued = Snapshot(m.frozen_timestamp)]>>
        ELSE IF NotificationExpired(notification.first_queued) THEN <<>>
        ELSE <<notification>>
      shard == GetNotificationShard(st.counter)
  IN [store |-> CreateNotifications(st.store, shard, notification_list),
      counter |-> shard]

RECURSIVE NotifyAll(_, _, _)
NotifyAll(st, m, items) ==
  IF items = <<>> THEN st
  ELSE NotifyAll(NotifyQueue(st, m, Head(items).value), m, Tail(items))

\* QueueManager.Flush: the buffered notifications are written in the order
\* the dict yields them, then the buffers are emptied.  The queue holds at
\* most MaxFlushed notifications after it: the others had expired, or the
\* queue had been emptied before.
Flush ==
  /\ \E items \in Perms(nmgr.notifications) :
       LET st == NotifyAll([store |-> nstore, counter |-> shard_counter],
                           nmgr, items)
       IN /\ nstore' = st.store
          /\ Cardinality(nstore') <= MaxFlushed
          /\ shard_counter' = st.counter
  /\ nmgr' = [nmgr EXCEPT !.notifications = {}]
  /\ nqueued' = {}
  /\ nread' = <<>>
  /\ nop' = NoOp
  /\ UNCHANGED <<now, qrest>>

\* _GetUnsortedNotifications: is `notification` kept instead of `existing`?
\* The variant of ScheduledLater that looks at first_queued only.
ScheduledLaterByFirstQueued(notification, existing) ==
  notification.first_queued > existing.first_queued

\* `notification.first_queued > existing.first_queued`, or equal and
\* `notification.last_status > existing.last_status`.
ScheduledLater(notification, existing) ==
  \/ notification.first_queued > existing.first_queued
  \/ /\ notification.first_queued = existing.first_queued
     /\ notification.last_status > existing.last_status

\* QueueManager._GetUnsortedNotifications over the rows the store yields,
\* filling notifications_by_session_id (one notification per session id).
RECURSIVE GetUnsortedNotifications(_, _)
GetUnsortedNotifications(rows, notifications_by_session_id) ==
  IF rows = <<>> THEN notifications_by_session_id ELSE
  LET notification == Head(rows).n
      found == {e \in notifications_by_session_id :
                  e.session_id = notification.session_id}
  IN IF found = {}
     THEN GetUnsortedNotifications(
            Tail(rows), notifications_by_session_id \cup {notification})
     ELSE IF ScheduledLater(notification, CHOOSE e \in found : TRUE)
     THEN GetUnsortedNotifications(
            Tail(rows),
            (notifications_by_session_id \ found) \cup {notification})
     ELSE GetUnsortedNotifications(Tail(rows), notifications_by_session_id)

\* `notifications.sort(key=priority, reverse=True)`
SortedByPriority(s) ==
  \A i, j \in DOMAIN s : i < j => s[i].priority >= s[j].priority

\* `end_time = self.frozen_timestamp or rdfvalue.RDFDatetime.Now()`
ReadEnd(m) == Snapshot(m.frozen_timestamp)

\* QueueManager.GetNotificationsForAllShards: shard after shard, each in the
\* order the store yields its rows.
GetNotificationsForAllShards ==
  /\ \E rows \in Perms(GetNotifications(nstore, Shards, ReadEnd(nmgr))) :
       /\ \A i, j \in DOMAIN rows : i < j => rows[i].shard <= rows[j].shard
       /\ \E notifications \in Perms(GetUnsortedNotifications(rows, {})) :
            /\ SortedByPriority(notifications)
            /\ nread' = notifications
  /\ nop' = [op |-> "read", default_end |-> TRUE, end |-> ReadEnd(nmgr),
             removed |-> {}]
  /\ UNCHANGED <<now, qrest, nstore, shard_counter, nmgr, nqueued>>

DeleteEndNow(m, end) == IF end = None THEN now ELSE end

\* `if end is None: end = self.frozen_timestamp or RDFDatetime.Now()`
DeleteEnd(m, end) == IF end = None THEN Snapshot(m.frozen_timestamp) ELSE end

\* QueueManager.DeleteNotifications(session_ids, start, end); None is the
\* default of `start` and of `end`.
DeleteNotifications(session_ids, start, end) ==
  /\ IF session_ids = {} THEN UNCHANGED nstore
     ELSE nstore' = StoreDeleteNotifications(
                      nstore, Shards, session_ids,
                      IF start = None THEN 0 ELSE start, DeleteEnd(nmgr, end))
  /\ nop' = [op |-> "delete", default_end |-> (end = None),
             end |-> DeleteEnd(nmgr, end),
             removed |-> {x.n.session_id : x \in nstore \ nstore'}]
  /\ UNCHANGED <<now, qrest, shard_counter, nmgr, nread, nqueued>>

\* QueueManager.FreezeTimestamp on the worker's manager: a turn begins, and
\* the list the turn before it had read is gone.
Freeze ==
  /\ Len(nmgr.prev_frozen_timestamps) < MaxFreezeDepth
  /\ nmgr' = FreezeTimestamp(nmgr, now)
  /\ nread' = <<>>
  /\ nop' = NoOp
  /\ UNCHANGED <<now, qrest, nstore, shard_counter, nqueued>>

\* QueueManager.UnfreezeTimestamp on the worker's manager: the turn ends.
Unfreeze ==
  /\ nmgr' = UnfreezeTimestamp(nmgr)
  /\ nread' = <<>>
  /\ nop' = NoOp
  /\ UNCHANGED <<now, qrest, nstore, shard_counter, nqueued>>

\* Another process notifies the queue: its own manager, not frozen, queues
\* and flushes one notification, which lands on the shard its own counter
\* picks.
OtherNotify(session_id, priority, last_status, queue_shard) ==
  /\ LET m == QueueNotification(
                NewManager,
                GrrNotification(session_id, priority, last_status), None)
         queued == (CHOOSE e \in m.notifications : TRUE).value
     IN nstore' = CreateNotification(
                    nstore, queue_shard,
                    [queued EXCEPT !.first_queued = Snapshot(None)])
  /\ Cardinality(nstore') <= MaxStored
  /\ UNCHANGED <<now, qrest, shard_counter, nmgr, nread, nop, nqueued>>

\* SpecB: the worker's manager buffers notifications and flushes them.
NextB ==
  \/ now < MaxNotifyTime /\ Tick /\ UNCHANGED notq
  \/ Freeze /\ UNCHANGED notn
  \/ Unfreeze /\ UNCHANGED notn
  \/ \E notification \in QueueableNotifications,
        timestamp \in {None, MaxNotifyTime + MaxDelay} :
       QueueNotificationCall(notification, timestamp) /\ UNCHANGED notn
  \/ Flush /\ UNCHANGED notn
  \/ \E session_ids \in SUBSET SessionIds :
       DeleteNotifications(session_ids, None, None) /\ UNCHANGED notn

SpecB == InitN /\ [][NextB]_vars

\* SpecN: the worker's manager reads and deletes the notifications of the
\* queue in turns while another process keeps notifying the queue.
NextN ==
  \/ now < MaxNotifyTime /\ Tick /\ UNCHANGED notq
  \/ Freeze /\ UNCHANGED notn
  \/ Unfreeze /\ UNCHANGED notn
  \/ GetNotificationsForAllShards /\ UNCHANGED notn
  \/ \E session_ids \in SUBSET SessionIds,
        start \in {None} \cup {n.timestamp : n \in Range(nread)},
        end \in {None} \cup {n.timestamp : n \in Range(nread)} :
       DeleteNotifications(session_ids, start, end) /\ UNCHANGED notn
  \/ \E session_id \in SessionIds, priority \in 0..MaxNotifyPriority,
        last_status \in 1..MaxStatus, queue_shard \in Shards :
       OtherNotify(session_id, priority, last_status, queue_shard)
       /\ UNCHANGED notn

SpecN == InitN /\ [][NextN]_vars

(***************************************************************************)
(* Claims about notifications.                                             *)
(***************************************************************************)
QueuedKeys == {q[1] : q \in nqueued}

QueuedStatuses(key) == {q[2] : q \in {r \in nqueued : r[1] = key}}

Buffered(key) == {e \in nmgr.notifications : e.key = key}

Highest(S) == CHOOSE x \in S : \A y \in S : y <= x

C8_KeepsHighest ==
  /\ {e.key : e \in nmgr.notifications} = QueuedKeys
  /\ \A key \in QueuedKeys :
       /\ Cardinality(Buffered(key)) = 1
       /\ \A e \in Buffered(key) :
            /\ e.value.last_status = Highest(QueuedStatuses(key))
            /\ NotificationKey(e.value.session_id, e.value.timestamp) = key

C8_OtherKeysUnaffected ==
  \A key \in QueuedKeys \cup QueuedKeys' :
    QueuedStatuses(key)' = QueuedStatuses(key)
      => Buffered(key)' = Buffered(key)

\* C8: notification idempotence.  After any number of QueueNotification
\* calls since the last Flush, the manager's buffer holds exactly one
\* notification per (session id, timestamp) key that was queued, and it is
\* one with the highest last_status queued under that key; a call for one
\* key leaves the buffered notifications of all other keys as they were.
C8_NotificationIdempotence ==
  [](C8_KeepsHighest) /\ [][C8_OtherKeysUnaffected]_vars

\* Two keys are buffered, and under one of them a lower and a higher
\* last_status have both been queued.
C8_Witness ==
  /\ Cardinality(QueuedKeys) >= 2
  /\ \E key \in QueuedKeys : Cardinality(QueuedStatuses(key)) >= 2

Late(x) ==
  /\ nmgr.frozen_timestamp # None
  /\ x.n.timestamp > nmgr.frozen_timestamp

SameCell(x, y) ==
  /\ x.shard = y.shard
  /\ x.n.session_id = y.n.session_id
  /\ x.n.timestamp = y.n.timestamp

C9_FrozenBound ==
  nmgr.frozen_timestamp # None =>
    /\ (nop.op # "none" /\ nop.default_end)
         => nop.end = nmgr.frozen_timestamp
    /\ \A i \in DOMAIN nread : nread[i].timestamp <= nmgr.frozen_timestamp

C9_LateKept ==
  \A x \in nstore : Late(x) => \E y \in nstore' : SameCell(x, y)

\* C9: timestamp freezing.  While the manager's timestamp is frozen, every
\* read and every delete with the default end uses the frozen time as its
\* upper bound: no notification with a later timestamp is in the list a read
\* returns, and none is removed from the store by any step of the turn, the
\* unfreeze that ends the turn included.
C9_TimestampFreezing == [](C9_FrozenBound) /\ [][C9_LateKept]_vars

\* In a frozen turn the manager has read a notification, then deleted the
\* notifications of its session with the default end, which removed a cell,
\* and a notification of the same session that another process wrote after
\* the freeze is still in the store.
C9_Witness ==
  /\ nmgr.frozen_timestamp # None
  /\ nread # <<>>
  /\ nop.op = "delete" /\ nop.default_end
  /\ \E x \in nstore : Late(x) /\ x.n.session_id \in nop.removed

(***************************************************************************)
(* The commit of a flow: SpecF.  A process creates the flow (StartFlow) or *)
(* opens it, runs turns of it, which buffer queue mutations in the         *)
(* runner's queue manager, and commits with Flush or Close; it may crash   *)
(* before any step.  Every buffered mutation carries the number of the     *)
(* turn that produced it, and the stored flow state the number of the last *)
(* turn it includes.                                                       *)
(***************************************************************************)
InitF == InitQvars /\ InitNvars /\ InitFvars /\ InitXvars

\* The buffers of the runner's queue manager, by the write that flushes
\* them: requests, responses and request deletions; client messages;
\* notifications.
Kinds == {"request", "task", "notification"}

Produced(kinds, turn) == {[kind |-> k, turn |-> turn] : k \in kinds}

\* QueueManager.Flush, which the runner's FlushMessages calls: the writes in
\* the order of the code.
FlushMessages ==
  <<"StoreRequestsAndResponses", "FlushClientMessages", "FlushNotifications">>

FlowFlushMessagesFirst ==
  <<"CheckLease", "Save", "WriteState", "Load">> \o FlushMessages
    \o <<"SuperFlush">>

FlowFlushNoCheckLease ==
  <<"Save", "WriteState", "Load", "SuperFlush">> \o FlushMessages

\* FlowBase.Flush: its statements in order.
FlowFlush ==
  <<"CheckLease", "Save", "WriteState", "Load", "SuperFlush">>
    \o FlushMessages

\* FlowBase.Close: its statements in order.
FlowClose ==
  <<"CheckLease", "Save", "WriteState", "SuperClose">> \o FlushMessages

Steps(op) == IF op = "Flush" THEN FlowFlush ELSE FlowClose

\* The statement of Flush or Close that runs next ("" outside a commit).
CurrentStep == IF fpc.op = "idle" THEN "" ELSE Steps(fpc.op)[fpc.i]

Writable(mode) == mode \in {"w", "rw"}

flowrest == <<now, qrest, nvars, xvars>>

\* The statement has run; after the last one the commit is over, and a
\* closed object is gone from memory.
Advance(obj) ==
  IF fpc.i < Len(Steps(fpc.op))
  THEN fpc' = [fpc EXCEPT !.i = @ + 1] /\ fobj' = obj
  ELSE fpc' = Idle /\ fobj' = IF fpc.op = "Close" THEN NoFlow ELSE obj

\* The statement raised: the commit is abandoned where it is (i keeps the
\* place of the statement that raised).
Raise == fpc' = [op |-> "idle", i |-> fpc.i] /\ UNCHANGED fobj

\* GRRFlow.StartFlow: the new object (mode "w") gets its context from the
\* runner, the first turn runs or is scheduled, and StartFlow goes on to
\* flow_obj.Close().
StartFlow(kinds) ==
  /\ ~fobj.open /\ fsaved = 0
  /\ fobj' = [open |-> TRUE, mode |-> "w", turn |-> 1, context |-> TRUE,
              dirty |-> FALSE, lease |-> None]
  /\ fbuf' = Produced(kinds, 1)
  /\ fpc' = [op |-> "Close", i |-> 1]
  /\ UNCHANGED <<fsaved, fqueue, fcrash, flowrest>>

\* aff4 Open / OpenWithLock and GRRFlow.Initialize: the state of the stored
\* flow is read; a flow that was never stored has no context.  OpenWithLock
\* opens for writing and holds the lock on the flow for lease_time; a plain
\* Open takes no lock (lease_time None).
OpenFlow(mode, lease_time) ==
  /\ ~fobj.open
  /\ fobj' = [open |-> TRUE, mode |-> mode, turn |-> fsaved,
              context |-> (fsaved # 0), dirty |-> FALSE,
              lease |-> IF Writable(mode) /\ lease_time # None
                        THEN now + lease_time ELSE None]
  /\ UNCHANGED <<fbuf, fsaved, fqueue, fpc, fcrash, flowrest>>

\* One turn of the flow on a worker: a state handler runs on the object,
\* which the worker holds open for writing, and its calls buffer queue
\* mutations in the runner's queue manager.
RunTurn(kinds) ==
  /\ fobj.open /\ Writable(fobj.mode) /\ fobj.context
  /\ fpc.op = "idle"
  /\ fobj.turn < MaxTurns
  /\ fobj' = [fobj EXCEPT !.turn = @ + 1]
  /\ fbuf' = fbuf \cup Produced(kinds, fobj.turn + 1)
  /\ UNCHANGED <<fsaved, fqueue, fpc, fcrash, flowrest>>

\* Flush or Close is called on the flow.
BeginCommit(op) ==
  /\ fobj.open /\ fpc.op = "idle"
  /\ fpc' = [op |-> op, i |-> 1]
  /\ UNCHANGED <<fobj, fbuf, fsaved, fqueue, fcrash, flowrest>>

\* self.CheckLease(): fails when the lease on the flow object has run out.
CheckLease ==
  /\ CurrentStep = "CheckLease"
  /\ IF fobj.lease # None /\ now >= fobj.lease THEN Raise ELSE Advance(fobj)
  /\ UNCHANGED <<fbuf, fsaved, fqueue, fcrash, flowrest>>

\* self.Save(): a hook that does nothing of its own.
Save ==
  /\ CurrentStep = "Save"
  /\ Advance(fobj)
  /\ UNCHANGED <<fbuf, fsaved, fqueue, fcrash, flowrest>>

\* GRRFlow.WriteState: on an object open for writing, args, context, runner
\* args and state are set on the object, to be written with it.
WriteState ==
  /\ CurrentStep = "WriteState"
  /\ IF ~Writable(fobj.mode) THEN Advance(fobj)
     ELSE IF ~fobj.context THEN Raise
     ELSE Advance([fobj EXCEPT !.dirty = TRUE])
  /\ UNCHANGED <<fbuf, fsaved, fqueue, fcrash, flowrest>>

\* self.Load(): a hook that does nothing of its own.
Load ==
  /\ CurrentStep = "Load"
  /\ Advance(fobj)
  /\ UNCHANGED <<fbuf, fsaved, fqueue, fcrash, flowrest>>

\* The attributes set on the object are written to the store in one write.
Persist == fsaved' = IF fobj.dirty THEN fobj.turn ELSE fsaved

\* super(FlowBase, self).Flush(sync=sync)
SuperFlush ==
  /\ CurrentStep = "SuperFlush"
  /\ Persist
  /\ Advance([fobj EXCEPT !.dirty = FALSE])
  /\ UNCHANGED <<fbuf, fqueue, fcrash, flowrest>>

\* super(FlowBase, self).Close(sync=sync): writes as Flush does and gives
\* up the lock.
SuperClose ==
  /\ CurrentStep = "SuperClose"
  /\ Persist
  /\ Advance([fobj EXCEPT !.dirty = FALSE, !.lease = None])
  /\ UNCHANGED <<fbuf, fqueue, fcrash, flowrest>>

Buffer(kind) == {m \in fbuf : m.kind = kind}

\* QueueManager.Flush, first write: data_store.StoreRequestsAndResponses.
StoreRequestsAndResponses ==
  /\ CurrentStep = "StoreRequestsAndResponses"
  /\ fqueue' = fqueue \cup Buffer("request")
  /\ Advance(fobj)
  /\ UNCHANGED <<fbuf, fsaved, fcrash, flowrest>>

\* QueueManager.Flush, second write: the mutation pool with the client
\* messages to delete and to schedule.
FlushClientMessages ==
  /\ CurrentStep = "FlushClientMessages"
  /\ fqueue' = fqueue \cup Buffer("task")
  /\ Advance(fobj)
  /\ UNCHANGED <<fbuf, fsaved, fcrash, flowrest>>

\* QueueManager.Flush, third write: the notifications; then every buffer of
\* the manager is emptied.
FlushNotifications ==
  /\ CurrentStep = "FlushNotifications"
  /\ fqueue' = fqueue \cup Buffer("notification")
  /\ fbuf' = {}
  /\ Advance(fobj)
  /\ UNCHANGED <<fsaved, fcrash, flowrest>>

\* The process dies: the object and the buffers in its memory are lost, the
\* store stays as it is.
Crash ==
  /\ fobj.open
  /\ fcrash' = CurrentStep
  /\ fobj' = NoFlow
  /\ fbuf' = {}
  /\ fpc' = Idle
  /\ UNCHANGED <<fsaved, fqueue, flowrest>>

NextF ==
  \/ Tick /\ UNCHANGED notq
  \/ \E kinds \in (SUBSET Kinds) \ {{}} : StartFlow(kinds)
  \/ \E mode \in {"r", "rw"}, lease_time \in {None} \cup 1..MaxLease :
       OpenFlow(mode, lease_time)
  \/ \E kinds \in (SUBSET Kinds) \ {{}} : RunTurn(kinds)
  \/ \E op \in {"Flush", "Close"} : BeginCommit(op)
  \/ CheckLease
  \/ Save
  \/ WriteState
  \/ Load
  \/ SuperFlush
  \/ SuperClose
  \/ StoreRequestsAndResponses
  \/ FlushClientMessages
  \/ FlushNotifications
  \/ Crash

SpecF == InitF /\ [][NextF]_vars

(***************************************************************************)
(* Claims about the commit of a flow.                                      *)
(***************************************************************************)
C10_StateSaved == \A m \in fqueue : m.turn <= fsaved

C10_StateFirst ==
  \A m \in fqueue' \ fqueue :
    fobj.open /\ fobj.turn = fsaved /\ m.turn <= fsaved

\* C10: commit ordering.  Whenever a step of Flush or Close writes a
\* buffered queue mutation to the store, the state of the flow as of its
\* latest turn has been written before; so at every point, a crash before any
\* step included, each request, client task and notification in the store
\* comes from a turn whose flow state the store holds.
C10_CommitOrdering == [](C10_StateSaved) /\ [][C10_StateFirst]_vars

\* The process crashed in the middle of the queue manager's writes of a
\* later turn: the store holds the state of that turn and its requests, but
\* not its notification.
C10_Witness ==
  /\ fcrash \in {"FlushClientMessages", "FlushNotifications"}
  /\ fsaved = MaxTurns
  /\ [kind |-> "request", turn |-> fsaved] \in fqueue
  /\ [kind |-> "notification", turn |-> fsaved] \notin fqueue

LeaseExpired == fobj.lease # None /\ now >= fobj.lease

\* C11: a Flush or Close that is called on a flow object whose lease has run
\* out fails at its first statement and writes nothing: the commit ends
\* there, and neither the stored flow state nor the stored queue mutations
\* change.
C11_ExpiredLeaseFails ==
  [][(fpc.op # "idle" /\ fpc.i = 1 /\ LeaseExpired /\ fpc' # fpc)
       => (fpc'.op = "idle" /\ fsaved' = fsaved /\ fqueue' = fqueue)
    ]_vars

\* A commit was called after the lease had run out and failed at its first
\* statement; the object still holds a turn the store does not have, and the
\* queue mutations of that turn are still only in the buffer.
C11_Witness ==
  /\ fobj.open /\ LeaseExpired
  /\ fpc = [op |-> "idle", i |-> 1]
  /\ fobj.turn > fsaved
  /\ fbuf # {} /\ fbuf \cap fqueue = {}

(***************************************************************************)
(* The lifecycle of one flow: SpecL.  Workers open the flow under its      *)
(* lock, run state handlers on it and close it; a caller of TerminateFlow  *)
(* opens it with or without the lock, errors it and closes it; anybody     *)
(* may mark it for termination.  The flow has no child flows here.         *)
(***************************************************************************)
InitL == InitQvars /\ InitNvars /\ InitFvars /\ InitXvars

lrest == <<now, qrest, nvars, fvars, lothers>>

\* `"r" in self.mode`
Readable(mode) == mode \in {"r", "rw"}

\* The lease on the flow is free, or has run out.
LockFree == llock.holder = NoHolder \/ now >= llock.until

\* aff4 Open and GRRFlow.Initialize: the object gets the stored context.
Opened(mode, lease) ==
  [open |-> TRUE, mode |-> mode, state |-> lcontext.state,
   backtrace |-> lcontext.backtrace, lease |-> lease]

\* runner.IsRunning()
IsRunning(obj) == obj.state = "RUNNING"

\* runner.Error(backtrace): a running flow goes to ERROR.
RunnerError(obj, backtrace) ==
  IF IsRunning(obj)
  THEN [obj EXCEPT !.state = "ERROR", !.backtrace = backtrace]
  ELSE obj

\* runner.Terminate(): a running flow goes to TERMINATED.
RunnerTerminate(obj) ==
  IF IsRunning(obj) THEN [obj EXCEPT !.state = "TERMINATED"] ELSE obj

\* The variant of the worker that opens the flow whether it is locked or not.
WorkerOpenNoLock(a, lease_time) ==
  /\ a \in Workers /\ ~lobj[a].open
  /\ llock' = [holder |-> a, until |-> now + lease_time]
  /\ lobj' = [lobj EXCEPT ![a] = Opened("rw", now + lease_time)]
  /\ UNCHANGED <<lcontext, lmarker, ldisp, lrest>>

\* MockWorker.Next: aff4.FACTORY.OpenWithLock(session_id, blocking=False).
\* With the lock taken the open fails and the worker does not get the flow.
WorkerOpen(a, lease_time) ==
  /\ a \in Workers /\ ~lobj[a].open
  /\ IF LockFree
     THEN /\ llock' = [holder |-> a, until |-> now + lease_time]
          /\ lobj' = [lobj EXCEPT ![a] = Opened("rw", now + lease_time)]
     ELSE UNCHANGED <<llock, lobj>>
  /\ UNCHANGED <<lcontext, lmarker, ldisp, lrest>>

\* What a state handler does to its flow: nothing to the lifecycle, or
\* self.Error / an exception, or self.Terminate.
Outcomes == {"continue", "error", "terminate"}

HandlerBody(obj, outcome) ==
  CASE outcome = "continue" -> obj
    [] outcome = "error" -> RunnerError(obj, HandlerRaised)
    [] outcome = "terminate" -> RunnerTerminate(obj)

\* The `responses` argument of a state handler: a Responses object built by
\* the caller (with a status), a FakeResponses (without), or a list of
\* messages that is empty, ends in a status, or has no accepted status.
ResponseInputs == {"prebuilt", "fake", "empty", "status", "nostatus"}

\* The variant of the wrapper that serves a direct response before it looks
\* at the PendingTermination marker.
DecoratedDirectFirst(obj, direct_response, responses, outcome) ==
  LET checked == Readable(obj.mode) /\ ~direct_response
      pending == IF checked THEN lmarker ELSE None
      disp == [NoDispatch EXCEPT !.checked = checked, !.pending = pending,
                                 !.direct = direct_response]
  IN IF pending # None
     THEN [obj |-> RunnerError(obj, pending), disp |-> disp]
     ELSE IF direct_response
     THEN [obj |-> HandlerBody(obj, outcome),
           disp |-> [disp EXCEPT !.ran = TRUE]]
     ELSE IF responses = "nostatus"
     THEN [obj |-> RunnerError(obj, HandlerRaised), disp |-> disp]
     ELSE [obj |-> HandlerBody(obj, outcome),
           disp |-> [disp EXCEPT
                       !.built = responses \in {"empty", "status"},
                       !.usage = responses \in {"prebuilt", "status"},
                       !.ran = TRUE]]

\* StateHandler's wrapper Decorated(self, responses, request,
\* direct_response): the flow object after the call, and what the call did.
\* Responses(...) raises FlowError for a list without a status; the caller of
\* the handler then errors the flow.
Decorated(obj, direct_response, responses, outcome) ==
  LET checked == Readable(obj.mode)
      pending == IF checked THEN lmarker ELSE None
      disp == [NoDispatch EXCEPT !.checked = checked, !.pending = pending,
                                 !.direct = direct_response]
  IN IF pending # None
     THEN [obj |-> RunnerError(obj, pending), disp |-> disp]
     ELSE IF direct_response
     THEN [obj |-> HandlerBody(obj, outcome),
           disp |-> [disp EXCEPT !.ran = TRUE]]
     ELSE IF responses = "nostatus"
     THEN [obj |-> RunnerError(obj, HandlerRaised), disp |-> disp]
     ELSE [obj |-> HandlerBody(obj, outcome),
           disp |-> [disp EXCEPT
                       !.built = responses \in {"empty", "status"},
                       !.usage = responses \in {"prebuilt", "status"},
                       !.ran = TRUE]]

\* A worker that holds the flow invokes one of its state handlers.
Dispatch(a, direct_response, responses, outcome) ==
  /\ a \in Workers /\ lobj[a].open
  /\ LET r == Decorated(lobj[a], direct_response, responses, outcome)
     IN /\ lobj' = [lobj EXCEPT ![a] = r.obj]
        /\ ldisp' = [r.disp EXCEPT !.actor = a]
  /\ UNCHANGED <<lcontext, lmarker, llock, lrest>>

\* FlowBase.Close on the object obj of actor a, in one step: CheckLease
\* fails the call when the lease has run out; else WriteState stores the
\* context of the object.  Leaving the object gives the lock back.
Close(a, obj) ==
  /\ IF obj.lease # None /\ now >= obj.lease
     THEN UNCHANGED lcontext
     ELSE lcontext' = [state |-> obj.state, backtrace |-> obj.backtrace]
  /\ llock' = IF llock.holder = a
              THEN [holder |-> NoHolder, until |-> 0] ELSE llock
  /\ lobj' = [lobj EXCEPT ![a] = NoObject]

\* MockWorker.Next leaves `with ... as flow_obj:`, which closes the flow.
CloseFlow(a) ==
  /\ a \in Workers /\ lobj[a].open
  /\ Close(a, lobj[a])
  /\ UNCHANGED <<lmarker, ldisp, lrest>>

\* GRRFlow.TerminateFlow up to `with flow_obj:`.  Without force the call
\* waits for the lock (OpenWithLock, blocking=True); with force it opens the
\* flow for reading and writing without the lock.
TerminateOpen(force, lease_time) ==
  /\ ~lobj[Terminator].open
  /\ IF force
     THEN /\ lobj' = [lobj EXCEPT ![Terminator] = Opened("rw", None)]
          /\ UNCHANGED llock
     ELSE /\ LockFree
          /\ llock' = [holder |-> Terminator, until |-> now + lease_time]
          /\ lobj' = [lobj EXCEPT
                        ![Terminator] = Opened("rw", now + lease_time)]
  /\ UNCHANGED <<lcontext, lmarker, ldisp, lrest>>

\* GRRFlow.TerminateFlow, `with flow_obj:` to its end: a flow that is not
\* running is left alone, else runner.Error(reason); leaving the block
\* closes the flow.
TerminateBody ==
  /\ lobj[Terminator].open
  /\ Close(Terminator, RunnerError(lobj[Terminator], ManualTermination))
  /\ UNCHANGED <<lmarker, ldisp, lrest>>

\* The variant of MarkForTermination that errors the stored flow at once.
MarkForTerminationAndError(reason) ==
  /\ lmarker' = reason
  /\ lcontext' = [state |-> "ERROR", backtrace |-> reason]
  /\ UNCHANGED <<llock, lobj, ldisp, lrest>>

\* GRRFlow.MarkForTermination(flow_urn, reason): one blind write of the
\* PendingTermination attribute, with no lock and no flow object.
MarkForTermination(reason) ==
  /\ lmarker' = reason
  /\ UNCHANGED <<lcontext, llock, lobj, ldisp, lrest>>

TickL ==
  /\ now < MaxTime
  /\ now' = now + 1
  /\ UNCHANGED <<qrest, nvars, fvars, lvars, lothers>>

NextL ==
  \/ \E a \in Workers, lease_time \in 1..MaxLease : WorkerOpen(a, lease_time)
  \/ \E a \in Workers, direct_response \in BOOLEAN,
        responses \in ResponseInputs, outcome \in Outcomes :
       Dispatch(a, direct_response, responses, outcome)
  \/ \E a \in Workers : CloseFlow(a)
  \/ \E force \in BOOLEAN, lease_time \in 1..MaxLease :
       TerminateOpen(force, lease_time)
  \/ TerminateBody
  \/ \E reason \in Reasons : MarkForTermination(reason)
  \/ TickL

SpecL == InitL /\ [][NextL]_vars

\* C12: ERROR and TERMINATED are absorbing for the stored lifecycle state of
\* a flow: once the stored context says ERROR or TERMINATED, no step of any
\* worker or of TerminateFlow, forced or not, stores another state.
C12_TerminalAbsorbing ==
  [][lcontext.state \in {"ERROR", "TERMINATED"}
       => lcontext'.state = lcontext.state]_vars

\* A step in which worker a invokes a state handler on the flow it holds.
Invokes(a) ==
  /\ lobj[a].open /\ lobj'[a].open
  /\ ldisp'.actor = a
  /\ <<lobj[a], ldisp>>' # <<lobj[a], ldisp>>

\* C13: every invocation of a state handler on a flow opened for reading,
\* also one with a direct response, looks at the PendingTermination marker
\* first: with the marker set the handler body does not run, no Responses
\* object is built, no resource usage is recorded, and a running flow is
\* errored with the reason of the marker.
C13_MarkerCheckedFirst ==
  [][\A a \in Workers :
       (Invokes(a) /\ Readable(lobj[a].mode) /\ lmarker # None)
         => /\ ldisp'.checked /\ ldisp'.pending = lmarker
            /\ ~ldisp'.ran /\ ~ldisp'.built /\ ~ldisp'.usage
            /\ lobj'[a].state # "RUNNING"
            /\ IsRunning(lobj[a])
                 => /\ lobj'[a].state = "ERROR"
                    /\ lobj'[a].backtrace = lmarker
    ]_vars

\* A worker has invoked a handler with a direct response on a marked flow:
\* its flow object is in ERROR with the reason of the marker, the body did
\* not run, and the stored state is still RUNNING.
C13_Witness ==
  /\ ldisp.actor \in Workers /\ ldisp.direct
  /\ lmarker # None /\ ldisp.pending = lmarker /\ ~ldisp.ran
  /\ lobj[ldisp.actor].open
  /\ lobj[ldisp.actor].state = "ERROR"
  /\ lobj[ldisp.actor].backtrace = lmarker
  /\ lcontext.state = "RUNNING"

\* C14: MarkForTermination takes no lock and writes the marker only: the
\* stored lifecycle state, the lock and every open flow object are as
\* before, also while a worker holds the lock.  A flow is errored with the
\* reason of a marker by a handler invocation and by nothing else: an open
\* object gets that backtrace only in an invocation, and the store only
\* from the Close of an object that has it.
C14_MarkOnlyWritesMarker ==
  [][/\ lmarker' # lmarker => UNCHANGED <<lcontext, llock, lobj>>
     /\ \A a \in Actors :
          (/\ lobj[a].open /\ lobj'[a].open
           /\ lobj'[a].backtrace \in Reasons
           /\ lobj[a].backtrace \notin Reasons)
            => Invokes(a) /\ lobj'[a].backtrace = lmarker
     /\ (lcontext'.backtrace \in Reasons
           /\ lcontext'.backtrace # lcontext.backtrace)
          => \E a \in Actors :
               /\ lobj[a].open /\ ~lobj'[a].open
               /\ lobj[a].backtrace = lcontext'.backtrace
    ]_vars

\* The flow was marked while a worker holds it under a valid lease: the
\* stored state and the worker's object are still RUNNING.
C14_Witness ==
  /\ lmarker # None
  /\ llock.holder \in Workers /\ now < llock.until
  /\ lobj[llock.holder].open /\ IsRunning(lobj[llock.holder])
  /\ lcontext.state = "RUNNING"

\* Actor a has the flow open under a lease that has not run out.
Leased(a) == lobj[a].open /\ lobj[a].lease # None /\ now < lobj[a].lease

\* C16 as stated: at any instant at most one worker is inside the block in
\* which it runs the state handlers of the flow and commits its state.
C16_OneWorkerAtATime == Cardinality({a \in Workers : lobj[a].open}) <= 1

\* C16 as amended: at any instant at most one actor has the flow open under
\* an unexpired lease; a worker invokes handlers only on a flow whose lock it
\* acquired; and an actor that opened the flow with the lock (a worker, or
\* TerminateFlow without force) changes the stored state only while its
\* lease has not run out.
C16_LeaseExclusion ==
  [][/\ Cardinality({a \in Actors : Leased(a)}) <= 1
     /\ Cardinality({a \in Actors : Leased(a)'}) <= 1
     /\ \A a \in Workers : Invokes(a) => lobj[a].lease # None
     /\ \A a \in Actors :
          (/\ lobj[a].open /\ ~lobj'[a].open
           /\ lobj[a].lease # None
           /\ lcontext' # lcontext)
            => Leased(a) /\ llock.holder = a
    ]_vars

\* One worker is still inside its block after its lease ran out, while
\* another worker holds the flow under a valid lease and has errored it.
C16_Witness ==
  \E a, b \in Workers :
    /\ a # b
    /\ lobj[a].open /\ ~Leased(a)
    /\ Leased(b) /\ llock.holder = b
    /\ lobj[b].state = "ERROR"

(***************************************************************************)
(* A tree of flows and GRRFlow.TerminateFlow on it: SpecC.  TerminateFlow  *)
(* is a stack of calls, one per flow it has open; a worker runs a state    *)
(* handler of a flow in one step (open with the lock, run, close).         *)
(***************************************************************************)
InitC == InitQvars /\ InitNvars /\ InitFvars /\ InitXvars

crest == <<now, qrest, nvars, fvars, cothers>>

\* flow_obj.ListChildren(), as a list in the order of the flow ids.
RECURSIVE ChildrenFrom(_, _)
ChildrenFrom(f, g) ==
  IF g > MaxFlows THEN <<>>
  ELSE IF Parent(g) = f THEN <<g>> \o ChildrenFrom(f, g + 1)
  ELSE ChildrenFrom(f, g + 1)

ListChildren(f) == ChildrenFrom(f, f + 1)

\* Flow g is flow f or was started, directly or not, by flow f.
RECURSIVE InSubtree(_, _)
InSubtree(f, g) ==
  IF g = f THEN TRUE ELSE IF g < f \/ g = 0 THEN FALSE
  ELSE InSubtree(f, Parent(g))

Subtree(f) == {g \in Flows : InSubtree(f, g)}

\* The flows TerminateFlow holds the lock of: those it opened without force.
Locked == {cstack[i].flow : i \in {j \in 1..Len(cstack) : ~cstack[j].force}}

Top == cstack[Len(cstack)]

Pop == SubSeq(cstack, 1, Len(cstack) - 1)

\* The call on top of the stack returns: leaving `with flow_obj:` closes the
\* flow, which stores its context.  When the outermost call returns, cret
\* is its flow if the call found the flow running.
Return(frame) ==
  /\ cstate' = [cstate EXCEPT ![frame.flow] = frame.state]
  /\ cstack' = Pop
  /\ cret' = IF Len(cstack) > 1 THEN cret
             ELSE IF frame.state = "ERROR" /\ frame.pc = "children"
             THEN frame.flow ELSE None

\* Somebody calls GRRFlow.TerminateFlow(flow_id, force=force): the flow is
\* opened, with its lock unless forced.
TerminateFlow(f, force) ==
  /\ cstack = <<>>
  /\ cstack' = <<[flow |-> f, force |-> force, state |-> cstate[f],
                  pc |-> "opened", kids |-> <<>>]>>
  /\ cret' = None
  /\ UNCHANGED <<cstate, clast, crest>>

\* `if not runner.IsRunning(): return`, else runner.Error(reason) and the
\* list of the children to kill.
TerminateCheck ==
  /\ cstack # <<>> /\ Top.pc = "opened"
  /\ IF Top.state # "RUNNING"
     THEN Return(Top)
     ELSE /\ cstack' = [cstack EXCEPT ![Len(cstack)] =
                          [@ EXCEPT !.state = "ERROR", !.pc = "children",
                                    !.kids = ListChildren(Top.flow)]]
          /\ UNCHANGED <<cstate, cret>>
  /\ UNCHANGED <<clast, crest>>

\* `for child_obj in children_to_kill: cls.TerminateFlow(child_obj.urn, ...,
\* force=force)`: the next child is opened; after the last one the call
\* returns.
TerminateChildren ==
  /\ cstack # <<>> /\ Top.pc = "children"
  /\ IF Top.kids = <<>>
     THEN Return(Top)
     ELSE /\ cstack' =
               [cstack EXCEPT ![Len(cstack)] = [@ EXCEPT !.kids = Tail(@)]]
               \o <<[flow |-> Head(Top.kids), force |-> Top.force,
                     state |-> cstate[Head(Top.kids)],
                     pc |-> "opened", kids |-> <<>>]>>
          /\ UNCHANGED <<cstate, cret>>
  /\ UNCHANGED <<clast, crest>>

\* A flow may end by itself once the flows it started are no longer running.
MayTerminate(f) ==
  \A i \in 1..Len(ListChildren(f)) : cstate[ListChildren(f)[i]] # "RUNNING"

\* A worker runs a state handler of flow f, which is running and not locked:
\* the handler goes on, or errors the flow, or ends it.
RunHandler(f, outcome) ==
  /\ cstate[f] = "RUNNING" /\ f \notin Locked
  /\ outcome = "terminate" => MayTerminate(f)
  /\ cstate' = [cstate EXCEPT
                  ![f] = CASE outcome = "continue" -> "RUNNING"
                           [] outcome = "error" -> "ERROR"
                           [] outcome = "terminate" -> "TERMINATED"]
  /\ clast' = [flow |-> f, flip |-> ~clast.flip]
  /\ UNCHANGED <<cstack, cret, crest>>

NextC ==
  \/ \E f \in Flows, force \in BOOLEAN : TerminateFlow(f, force)
  \/ TerminateCheck
  \/ TerminateChildren
  \/ \E f \in Flows, outcome \in Outcomes : RunHandler(f, outcome)

SpecC == InitC /\ [][NextC]_vars

\* C15: once TerminateFlow on a running flow has returned, that flow and
\* every flow started by it, directly or through other flows, is stored as
\* ERROR or TERMINATED, and no state handler is run for any of them.
C15_TerminationCascade ==
  [][cret # None
       => /\ \A g \in Subtree(cret) : cstate[g] # "RUNNING"
          /\ clast' # clast => clast'.flow \notin Subtree(cret)
    ]_vars

(***************************************************************************)
(* The worker loop: SpecW.  Responses complete requests of a flow and a    *)
(* notification is written for it; workers run MockWorker.Next, one        *)
(* notification per iteration.  A lock is held until its holder closes the *)
(* flow.                                                                   *)
(***************************************************************************)
InitW == InitQvars /\ InitNvars /\ InitFvars /\ InitXvars

wrest == <<qrest, nvars, fvars, wothers>>

\* Responses with a status arrive for a request of flow s: the request is
\* completed and the flow is notified.
Arrive(s) ==
  /\ wwork[s] < MaxWork
  /\ wwork' = [wwork EXCEPT ![s] = @ + 1]
  /\ wnotes' = wnotes \cup {[session |-> s, timestamp |-> now]}
  /\ UNCHANGED <<now, wlock, wpc, wrest>>

\* MockWorker.Next up to the lock: one of the notifications that are due is
\* taken (notifications_available[:1]), and the notifications of its
\* session up to its timestamp are deleted from the store at once.
Select(w) ==
  /\ wpc[w].op = "idle"
  /\ \E n \in wnotes :
       /\ n.timestamp <= now
       /\ wnotes' = {o \in wnotes : ~(o.session = n.session
                                        /\ o.timestamp <= n.timestamp)}
       /\ wpc' = [wpc EXCEPT ![w] = [op |-> "selected",
                                     session |-> n.session,
                                     timestamp |-> n.timestamp]]
  /\ UNCHANGED <<now, wwork, wlock, wrest>>

\* aff4.FACTORY.OpenWithLock(session_id, blocking=False): the worker gets
\* the lock, or the call raises and ends the iteration; nothing in Next
\* catches the exception or writes a notification.
TryLock(w) ==
  /\ wpc[w].op = "selected"
  /\ IF wlock[wpc[w].session] = NoHolder
     THEN /\ wlock' = [wlock EXCEPT ![wpc[w].session] = w]
          /\ wpc' = [wpc EXCEPT ![w].op = "locked"]
     ELSE /\ wpc' = [wpc EXCEPT ![w] = Waiting]
          /\ UNCHANGED wlock
  /\ UNCHANGED <<now, wnotes, wwork, wrest>>

\* runner.ProcessCompletedRequests(notification, pool): the completed
\* requests of the flow are handed to their state handlers.
Process(w) ==
  /\ wpc[w].op = "locked"
  /\ wwork' = [wwork EXCEPT ![wpc[w].session] = 0]
  /\ wpc' = [wpc EXCEPT ![w].op = "processed"]
  /\ UNCHANGED <<now, wnotes, wlock, wrest>>

\* The worker leaves `with ... as flow_obj:` and the iteration ends.
Release(w) ==
  /\ wpc[w].op = "processed"
  /\ wlock' = [wlock EXCEPT ![wpc[w].session] = NoHolder]
  /\ wpc' = [wpc EXCEPT ![w] = Waiting]
  /\ UNCHANGED <<now, wnotes, wwork, wrest>>

TickW ==
  /\ now < MaxTime
  /\ now' = now + 1
  /\ UNCHANGED <<wvars, wrest>>

NextW ==
  \/ \E s \in SessionIds : Arrive(s)
  \/ \E w \in Workers : Select(w)
  \/ \E w \in Workers : TryLock(w)
  \/ \E w \in Workers : Process(w)
  \/ \E w \in Workers : Release(w)
  \/ TickW

SpecW == InitW /\ [][NextW]_vars

\* C17: the work of a flow is not lost when a worker fails to lock it: as
\* long as the flow has completed requests that no handler has got, a
\* notification for the flow is in the store, or a worker that has taken
\* one is on its way to process them.
C17_WorkNotLost ==
  \A s \in SessionIds :
    wwork[s] > 0
      => \/ \E n \in wnotes : n.session = s
         \/ \E w \in Workers :
              wpc[w].session = s /\ wpc[w].op \in {"selected", "locked"}

(***************************************************************************)
(* The Responses collator: SpecR.  A caller has a list of response         *)
(* messages, constructs a Responses object from it and iterates over the   *)
(* object.                                                                 *)
(***************************************************************************)
ResponseIds == 1..MaxResponseId

\* GrrMessage.Type, with what the checks of the iteration see of a message:
\* a MESSAGE whose args_rdf_name is or is not among the expected classes, and
\* a STATUS that is or is not OK.
MessageKinds == {"MESSAGE", "MESSAGE_OTHER", "STATUS_OK", "STATUS_ERROR",
                 "ITERATOR"}

AuthorizationStates == {"AUTHENTICATED", "UNAUTHENTICATED", "DESYNCHRONIZED"}

IsMessage(msg) == msg.kind \in {"MESSAGE", "MESSAGE_OTHER"}

IsStatus(msg) == msg.kind \in {"STATUS_OK", "STATUS_ERROR"}

\* A list of responses a caller may pass: n messages in any order; the
\* payload of a message stands for itself, so it is the place of the message
\* in the list.
ResponseList(n, ids, kinds, auths) ==
  [i \in 1..n |-> [response_id |-> ids[i], kind |-> kinds[i],
                   auth_state |-> auths[i], payload |-> i]]

\* The request of a collator: of a flow (no client request in it), or a
\* client request whose action is known and names its out_rdfvalues, is not
\* registered, or names none.
RequestKinds == {"flow", "client", "unknown_action", "no_out_rdfvalues"}

InitR ==
  /\ InitQvars /\ InitNvars /\ InitFvars
  /\ InitLvars /\ InitCvars /\ InitWvars /\ InitSvars /\ InitYvars
  /\ \E n \in 0..MaxResponses :
       \E ids \in [1..n -> ResponseIds], kinds \in [1..n -> MessageKinds],
          auths \in [1..n -> AuthorizationStates] :
         rlist = ResponseList(n, ids, kinds, auths)
  /\ robj = NoResponses
  /\ rpc = "new"
  /\ rout = <<>>

rrest == <<now, qrest, nvars, fvars, rothers>>

\* list.sort(key=response_id): stable, so messages with the same id keep
\* their order.
RECURSIVE Insert(_, _)
Insert(msg, sorted) ==
  IF sorted = <<>> THEN <<msg>>
  ELSE IF Head(sorted).response_id <= msg.response_id
  THEN <<Head(sorted)>> \o Insert(msg, Tail(sorted))
  ELSE <<msg>> \o sorted

RECURSIVE Sort(_)
Sort(msgs) ==
  IF msgs = <<>> THEN <<>>
  ELSE Insert(msgs[Len(msgs)], Sort(SubSeq(msgs, 1, Len(msgs) - 1)))

\* The variant of the check that drops desynchronized messages only.
DroppedByAuthDesynchronized(msg, auth_required) ==
  msg.auth_state = "DESYNCHRONIZED"

\* The authentication check of the constructor drops the message.
DroppedByAuth(msg, auth_required) ==
  \/ msg.auth_state = "DESYNCHRONIZED"
  \/ auth_required /\ msg.auth_state # "AUTHENTICATED"

\* The variant of the loop that goes on after a status message.
RECURSIVE FilterNoBreak(_, _)
FilterNoBreak(msgs, obj) ==
  IF msgs = <<>> THEN obj
  ELSE LET msg == Head(msgs)
       IN IF DroppedByAuth(msg, obj.auth_required)
          THEN FilterNoBreak(Tail(msgs),
                             [obj EXCEPT !.dropped = Append(@, msg)])
          ELSE IF msg.kind = "ITERATOR"
          THEN FilterNoBreak(Tail(msgs),
                             [obj EXCEPT !.iterator = msg.payload])
          ELSE IF IsStatus(msg)
          THEN FilterNoBreak(Tail(msgs),
                 [obj EXCEPT !.status = msg.kind,
                             !.success = msg.kind = "STATUS_OK"])
          ELSE FilterNoBreak(Tail(msgs),
                             [obj EXCEPT !.responses = Append(@, msg)])

\* `for msg in responses:` of the constructor: dropped messages and
\* iterators are passed over, the first status ends the loop, anything else
\* is kept.
RECURSIVE Filter(_, _)
Filter(msgs, obj) ==
  IF msgs = <<>> THEN obj
  ELSE LET msg == Head(msgs)
       IN IF DroppedByAuth(msg, obj.auth_required)
          THEN Filter(Tail(msgs), [obj EXCEPT !.dropped = Append(@, msg)])
          ELSE IF msg.kind = "ITERATOR"
          THEN Filter(Tail(msgs), [obj EXCEPT !.iterator = msg.payload])
          ELSE IF IsStatus(msg)
          THEN [obj EXCEPT !.status = msg.kind,
                           !.success = msg.kind = "STATUS_OK"]
          ELSE Filter(Tail(msgs), [obj EXCEPT !.responses = Append(@, msg)])

\* The variant of the constructor that never raises.
ResponsesInitNoRaise(responses, auth_required) ==
  LET obj == [NoResponses EXCEPT !.auth_required = auth_required]
  IN IF responses = <<>>
     THEN [obj |-> obj, responses |-> responses, raised |-> FALSE]
     ELSE [obj |-> Filter(Sort(responses), obj),
           responses |-> Sort(responses), raised |-> FALSE]

\* Responses.__init__(request, responses, auth_required): the object, the
\* caller's list (sorted in place), and whether FlowError was raised.  An
\* empty list, like None, skips the whole block under `if responses:`.
ResponsesInit(responses, auth_required) ==
  LET obj == [NoResponses EXCEPT !.auth_required = auth_required]
  IN IF responses = <<>>
     THEN [obj |-> obj, responses |-> responses, raised |-> FALSE]
     ELSE LET built == Filter(Sort(responses), obj)
          IN [obj |-> built, responses |-> Sort(responses),
              raised |-> built.status = "none"]

\* A caller constructs the collator from its list.
Construct(auth_required) ==
  /\ rpc = "new"
  /\ LET r == ResponsesInit(rlist, auth_required)
     IN /\ rlist' = r.responses
        /\ robj' = r.obj
        /\ rpc' = IF r.raised THEN "raised" ELSE "built"
  /\ UNCHANGED <<rout, rrest>>

\* `for message in self._responses:` of the iteration: a message with the id
\* of the one before is a retransmission and is passed over; for a client
\* request a MESSAGE must be of an expected class; the payload is yielded.
RECURSIVE Yield(_, _, _, _)
Yield(msgs, old_response_id, request, out) ==
  IF msgs = <<>> THEN [out |-> out, raised |-> FALSE]
  ELSE LET msg == Head(msgs)
       IN IF msg.response_id = old_response_id
          THEN Yield(Tail(msgs), old_response_id, request, out)
          ELSE IF ~IsMessage(msg)
          THEN Yield(Tail(msgs), msg.response_id, request, out)
          ELSE IF request = "no_out_rdfvalues"
          THEN [out |-> out, raised |-> TRUE]
          ELSE IF request = "client" /\ msg.kind = "MESSAGE_OTHER"
          THEN [out |-> out, raised |-> TRUE]
          ELSE Yield(Tail(msgs), msg.response_id, request,
                     Append(out, msg.payload))

\* The variant of the iteration that yields every message it holds.
ResponsesIterAll(obj, request) ==
  IF request = "unknown_action"
  THEN [out |-> <<>>, raised |-> TRUE]
  ELSE [out |-> [i \in 1..Len(obj.responses) |-> obj.responses[i].payload],
        raised |-> FALSE]

\* Responses.__iter__: the payloads yielded, and whether RuntimeError was
\* raised on the way.
ResponsesIter(obj, request) ==
  IF request = "unknown_action"
  THEN [out |-> <<>>, raised |-> TRUE]
  ELSE Yield(obj.responses, None, request, <<>>)

\* A state handler iterates over the collator it was given.
Iterate(request) ==
  /\ rpc = "built"
  /\ LET r == ResponsesIter(robj, request)
     IN /\ rout' = r.out
        /\ rpc' = IF r.raised THEN "failed" ELSE "done"
  /\ UNCHANGED <<rlist, robj, rrest>>

NextR ==
  \/ \E auth_required \in BOOLEAN : Construct(auth_required)
  \/ \E request \in RequestKinds : Iterate(request)

SpecR == InitR /\ [][NextR]_vars

\* The messages of the caller's list that pass the authentication check.
Accepted ==
  {rlist[i] : i \in {j \in 1..Len(rlist) :
                       ~DroppedByAuth(rlist[j], robj.auth_required)}}

AcceptedStatus == {msg \in Accepted : IsStatus(msg)}

\* C19 as stated: a list in which no status is accepted, the empty list
\* included, makes the constructor raise, so that no collator without a
\* status exists.
C19_NoStatusRaises ==
  (rpc # "new" /\ AcceptedStatus = {}) => rpc = "raised"

\* C19 as amended: a list that is not empty and in which no status is
\* accepted makes the constructor raise FlowError; a collator without a
\* status comes only from an empty list, and a list with an accepted status
\* never raises.
C19_NoStatusRaisesUnlessEmpty ==
  /\ (rpc # "new" /\ AcceptedStatus = {} /\ rlist # <<>>) => rpc = "raised"
  /\ (rpc \in {"built", "done", "failed"} /\ robj.status = "none")
       => rlist = <<>>
  /\ (rpc # "new" /\ AcceptedStatus # {}) => rpc # "raised"

\* The constructor has raised for a list whose only status was dropped by
\* the authentication check, next to a message that was accepted.
C19_Witness ==
  /\ rpc = "raised"
  /\ \E i \in 1..Len(rlist) :
       IsStatus(rlist[i]) /\ DroppedByAuth(rlist[i], robj.auth_required)
  /\ \E msg \in Accepted : IsMessage(msg)

\* The message of the caller's list that has payload p.
ByPayload(p) == CHOOSE msg \in Range(rlist) : msg.payload = p

\* C20: whatever the order of the caller's list, a finished iteration has
\* yielded payloads of accepted MESSAGE records in strictly ascending order
\* of response id, so each id at most once; none of them has a higher id
\* than the first accepted status, and every id of an accepted MESSAGE below
\* that status is among them.
C20_OrderedDeduplicated ==
  rpc = "done" =>
    /\ \A i, j \in 1..Len(rout) :
         i < j => ByPayload(rout[i]).response_id
                    < ByPayload(rout[j]).response_id
    /\ \A i \in 1..Len(rout) :
         /\ ByPayload(rout[i]) \in Accepted
         /\ IsMessage(ByPayload(rout[i]))
         /\ \A st \in AcceptedStatus :
              ByPayload(rout[i]).response_id <= st.response_id
    /\ \A msg \in Accepted :
         (/\ IsMessage(msg)
          /\ \A st \in AcceptedStatus : msg.response_id < st.response_id)
           => \E i \in 1..Len(rout) :
                ByPayload(rout[i]).response_id = msg.response_id

\* An iteration has finished on a list that came with the status first and
\* two messages with the same id after it: one payload was yielded.
C20_Witness ==
  /\ rpc = "done"
  /\ Len(robj.responses) = 2 /\ Len(rout) = 1
  /\ \E st \in AcceptedStatus :
       \A i \in 1..Len(robj.responses) :
         /\ st.payload < robj.responses[i].payload
         /\ robj.responses[i].response_id < st.response_id

\* Message a comes before message b once the list is sorted by response id:
\* by id, and with the same id by the place in the caller's list.
Before(a, b) ==
  \/ a.response_id < b.response_id
  \/ a.response_id = b.response_id /\ a.payload <= b.payload

\* The accepted status records that come before every other one.
FirstStatus == {st \in AcceptedStatus : \A o \in AcceptedStatus : Before(st, o)}

\* C21: the status of a collator is the first accepted status record in the
\* order of the response ids: success says whether that one is OK, a status
\* after it does not replace it, and no record with a higher response id
\* than it is yielded.
C21_FirstStatusWins ==
  (rpc \in {"built", "done", "failed"} /\ rlist # <<>>) =>
    \E st \in FirstStatus :
      /\ robj.status = st.kind
      /\ robj.success = (st.kind = "STATUS_OK")
      /\ \A i \in 1..Len(rout) :
           ByPayload(rout[i]).response_id <= st.response_id

\* An iteration has finished on a list with an OK status, a failed status
\* after it and an accepted message with a higher id than the first status:
\* the collator says success and the message was not yielded.
C21_Witness ==
  /\ rpc = "done" /\ robj.success
  /\ \E st \in FirstStatus, o \in AcceptedStatus, msg \in Accepted :
       /\ o.kind = "STATUS_ERROR" /\ st.kind = "STATUS_OK"
       /\ IsMessage(msg) /\ msg.response_id > st.response_id
       /\ \A i \in 1..Len(rout) : rout[i] # msg.payload

\* A record the collator has to drop: desynchronized, or not authenticated
\* while the collator requires authentication.
MustDrop(msg) ==
  \/ msg.auth_state = "DESYNCHRONIZED"
  \/ robj.auth_required /\ msg.auth_state # "AUTHENTICATED"

\* C22: a record that has to be dropped is never yielded, never sets the
\* iterator of the collator and never is its status; an iterator record is
\* never yielded either.
C22_DroppedNeverUsed ==
  rpc \in {"built", "done", "failed"} =>
    /\ \A i \in 1..Len(rout) :
         ~MustDrop(ByPayload(rout[i])) /\ IsMessage(ByPayload(rout[i]))
    /\ robj.iterator # None
         => /\ ~MustDrop(ByPayload(robj.iterator))
            /\ ByPayload(robj.iterator).kind = "ITERATOR"
    /\ robj.status # "none"
         => \E st \in Range(rlist) :
              IsStatus(st) /\ ~MustDrop(st) /\ st.kind = robj.status
    /\ \A i \in 1..Len(robj.dropped) : MustDrop(robj.dropped[i])
    /\ \A i \in 1..Len(robj.responses) : ~MustDrop(robj.responses[i])

\* An iteration has finished on a list with a message that is not
\* authenticated, for a collator that requires it, and an iterator record
\* that was accepted: nothing was yielded.
C22_Witness ==
  /\ rpc = "done" /\ robj.auth_required /\ rout = <<>>
  /\ robj.iterator # None
  /\ \E i \in 1..Len(robj.dropped) :
       /\ IsMessage(robj.dropped[i])
       /\ robj.dropped[i].auth_state = "UNAUTHENTICATED"

\* Responses.__len__: the number of messages the collator holds.
ResponsesLen(obj) == Len(obj.responses)

\* C23: the length of a collator is the number of responses an iteration
\* over it yields, also for lists with retransmitted response ids.
C23_LengthIsYielded ==
  rpc = "done" => ResponsesLen(robj) = Len(rout)

(***************************************************************************)
(* GRRFlow.StartFlow, statement by statement: SpecS.                       *)
(***************************************************************************)
InitS == InitQvars /\ InitNvars /\ InitFvars /\ InitXvars

srest == <<now, qrest, nvars, fvars, sothers>>

\* The variant of StartFlow that looks at the left-over keyword arguments
\* after it has closed the flow.
StartFlowStepsKwargsLate ==
  <<"CheckFlowName", "CheckToken", "Create", "Validate", "CreateRunner",
    "Start", "Terminate", "Close", "CheckKwargs", "Audit">>

\* The statements of StartFlow that can raise or change state, in the order
\* of the source.
StartFlowSteps ==
  <<"CheckFlowName", "CheckToken", "Create", "Validate", "CheckKwargs",
    "CreateRunner", "Start", "Terminate", "Close", "Audit">>

\* The statement of StartFlow that runs next ("" outside a call).
StartStep == IF spc.op = "running" THEN StartFlowSteps[spc.i] ELSE ""

\* The statement has run; after the last one StartFlow returns.
Next_(flow) ==
  /\ spc' = IF spc.i < Len(StartFlowSteps)
            THEN [spc EXCEPT !.i = @ + 1]
            ELSE [op |-> "returned", i |-> spc.i]
  /\ sflow' = flow

\* The statement raised: StartFlow is left where it is.
Raised == spc' = [op |-> "raised", i |-> spc.i] /\ UNCHANGED sflow

\* Somebody calls StartFlow: the flow name is or is not registered, a token
\* is or is not given, the arguments are or are not valid, keyword arguments
\* are or are not left over; the Start handler will leave `requests`
\* requests outstanding and return, error the flow, or raise.
StartFlowCall(c) ==
  /\ spc.op = "idle"
  /\ scall' = c
  /\ spc' = [op |-> "running", i |-> 1]
  /\ UNCHANGED <<sflow, sstore, squeue, saudit, srest>>

\* `if runner_args.flow_name not in GRRFlow.classes: raise RuntimeError`
CheckFlowName ==
  /\ StartStep = "CheckFlowName"
  /\ IF scall.known THEN Next_(sflow) ELSE Raised
  /\ UNCHANGED <<scall, sstore, squeue, saudit, srest>>

\* `if not token: raise access_control.UnauthorizedAccess`
CheckToken ==
  /\ StartStep = "CheckToken"
  /\ IF scall.token THEN Next_(sflow) ELSE Raised
  /\ UNCHANGED <<scall, sstore, squeue, saudit, srest>>

\* aff4.FACTORY.Create(None, ...): an anonymous object in memory.
Create ==
  /\ StartStep = "Create"
  /\ Next_([sflow EXCEPT !.created = TRUE])
  /\ UNCHANGED <<scall, sstore, squeue, saudit, srest>>

\* args.Validate()
Validate ==
  /\ StartStep = "Validate"
  /\ IF scall.valid THEN Next_(sflow) ELSE Raised
  /\ UNCHANGED <<scall, sstore, squeue, saudit, srest>>

\* `if kwargs: raise type_info.UnknownArg`
CheckKwargs ==
  /\ StartStep = "CheckKwargs"
  /\ IF scall.leftover THEN Raised ELSE Next_(sflow)
  /\ UNCHANGED <<scall, sstore, squeue, saudit, srest>>

\* flow_obj.CreateRunner(...): the runner gives the flow its context.
CreateRunner ==
  /\ StartStep = "CreateRunner"
  /\ Next_([sflow EXCEPT !.state = "RUNNING"])
  /\ UNCHANGED <<scall, sstore, squeue, saudit, srest>>

\* A start time makes the start asynchronous.
Sync(c) == c.sync /\ ~c.start_time

\* `if sync: flow_obj.Start()`, the handler run inline: what it raises
\* leaves StartFlow; else it returns with its requests buffered, also after
\* it has called Error or Terminate.  `else: runner.CallState(next_state="Start")`:
\* one request to the flow itself and its notification are buffered.
RunStart ==
  /\ StartStep = "Start"
  /\ IF Sync(scall)
     THEN IF scall.outcome = "raise"
          THEN /\ spc' = [op |-> "raised", i |-> spc.i]
               /\ sflow' = [sflow EXCEPT !.started = TRUE]
          ELSE Next_([HandlerBody(sflow, scall.outcome)
                        EXCEPT !.started = TRUE,
                               !.outstanding = scall.requests,
                               !.buffered = IF scall.requests > 0
                                            THEN {"request", "task"}
                                            ELSE {}])
     ELSE Next_([sflow EXCEPT !.outstanding = 1,
                              !.buffered = {"request", "notification"}])
  /\ UNCHANGED <<scall, sstore, squeue, saudit, srest>>

\* The variant that terminates the flow whatever is outstanding.
TerminateIfDoneAlways ==
  /\ StartStep = "Terminate"
  /\ Next_(RunnerTerminate(sflow))
  /\ UNCHANGED <<scall, sstore, squeue, saudit, srest>>

\* `if not runner.OutstandingRequests(): flow_obj.Terminate()`
TerminateIfDone ==
  /\ StartStep = "Terminate"
  /\ Next_(IF sflow.outstanding = 0 THEN RunnerTerminate(sflow) ELSE sflow)
  /\ UNCHANGED <<scall, sstore, squeue, saudit, srest>>

\* flow_obj.Close(): the state of the flow is stored, then what the runner
\* has buffered is written to the queues.
CloseStarted ==
  /\ StartStep = "Close"
  /\ sstore' = sflow.state
  /\ squeue' = sflow.buffered
  /\ Next_([sflow EXCEPT !.buffered = {}])
  /\ UNCHANGED <<scall, saudit, srest>>

\* `if parent_flow is None: events.Events.PublishEvent("Audit", ...)`
PublishAudit ==
  /\ StartStep = "Audit"
  /\ saudit' = ~scall.parent
  /\ Next_(sflow)
  /\ UNCHANGED <<scall, sstore, squeue, srest>>

StartCalls ==
  [known : BOOLEAN, token : BOOLEAN, valid : BOOLEAN, leftover : BOOLEAN,
   sync : BOOLEAN, start_time : BOOLEAN, parent : BOOLEAN,
   requests : 0..MaxStartRequests,
   outcome : Outcomes \cup {"raise"}]

NextS ==
  \/ \E c \in StartCalls : StartFlowCall(c)
  \/ CheckFlowName
  \/ CheckToken
  \/ Create
  \/ Validate
  \/ CheckKwargs
  \/ CreateRunner
  \/ RunStart
  \/ TerminateIfDone
  \/ CloseStarted
  \/ PublishAudit

SpecS == InitS /\ [][NextS]_vars

\* StartFlow rejects the call: the flow name is not registered, no token is
\* given, the arguments are not valid, or keyword arguments are left over.
Rejected(c) == ~c.known \/ ~c.token \/ ~c.valid \/ c.leftover

\* C24: a call that StartFlow rejects never returns, and at no point of it
\* is a flow stored, anything written to the queues, the Start handler run
\* or an audit event published.
C24_RejectedLeavesNothing ==
  (spc.op # "idle" /\ Rejected(scall)) =>
    /\ spc.op # "returned"
    /\ sstore = "none" /\ squeue = {}
    /\ ~sflow.started /\ ~saudit

\* StartFlow has raised for keyword arguments that were left over, in a call
\* with a registered flow, a token and valid arguments: the object was
\* created in memory, nothing else happened.
C24_Witness ==
  /\ spc.op = "raised" /\ StartFlowSteps[spc.i] = "CheckKwargs"
  /\ scall.leftover /\ scall.known /\ scall.token /\ scall.valid
  /\ sflow.created /\ sstore = "none" /\ squeue = {}

\* StartFlow has returned: the flow is closed and stored.
StartReturned == spc.op = "returned"

\* C25 (as stated): after StartFlow returns, a flow without outstanding
\* requests is TERMINATED, a flow with at least one is RUNNING, and no flow
\* is RUNNING with no request outstanding and no notification pending.
C25_StartedFlowState ==
  StartReturned =>
    /\ sflow.outstanding = 0 => sstore = "TERMINATED"
    /\ sflow.outstanding > 0 => sstore = "RUNNING"
    /\ sstore = "RUNNING" =>
         sflow.outstanding > 0 \/ "notification" \in squeue

\* C25 (amended): after StartFlow returns, a flow that its Start handler
\* left running is TERMINATED without outstanding requests and RUNNING with
\* at least one; a flow whose Start handler called Error is ERROR and one
\* whose Start handler called Terminate is TERMINATED; no flow is RUNNING
\* with no request outstanding and no notification pending.
C25_StartedFlowStateUnlessEnded ==
  StartReturned =>
    /\ (Sync(scall) /\ scall.outcome = "error") => sstore = "ERROR"
    /\ (Sync(scall) /\ scall.outcome = "terminate") => sstore = "TERMINATED"
    /\ (~Sync(scall) \/ scall.outcome = "continue") =>
         /\ sflow.outstanding = 0 => sstore = "TERMINATED"
         /\ sflow.outstanding > 0 => sstore = "RUNNING"
    /\ sstore = "RUNNING" =>
         sflow.outstanding > 0 \/ "notification" \in squeue

\* StartFlow has returned from a synchronous start whose handler called
\* Error and left no request outstanding: the flow is stored as ERROR.
C25_Witness ==
  /\ StartReturned /\ Sync(scall) /\ scall.outcome = "error"
  /\ sflow.outstanding = 0 /\ sstore = "ERROR"

(***************************************************************************)
(* The write path of one QueueManager: SpecP.                              *)
(***************************************************************************)
InitP ==
  /\ InitQvars /\ InitNvars /\ InitFvars /\ InitXgroups
  /\ InitGvars /\ InitTvars /\ InitKvars
  /\ InitHvars
  /\ InitZvars
  /\ InitMvars
  /\ InitUvars
  /\ InitEvars
  /\ InitAvars
  /\ \E stored \in SUBSET Requests :
       /\ pstore = StoreOf(stored)
       /\ pflushed = pstore
  /\ pbuf = NoBuffers
  /\ plast = "none"

prest == <<now, qrest, nvars, fvars, xgroups, pothers>>

\* How many entries the manager has buffered.
Queued ==
  Cardinality(pbuf.request_queue) + Cardinality(pbuf.response_queue)
  + Cardinality(pbuf.requests_to_delete)
  + Cardinality(pbuf.client_messages_to_delete)
  + Cardinality(pbuf.new_client_messages)
  + Cardinality(pbuf.notifications)

\* QueueManager.QueueRequest: self.request_queue.append(...)
QueueRequest(r) ==
  /\ Queued < MaxQueued
  /\ pbuf' = [pbuf EXCEPT !.request_queue = @ \cup {r}]
  /\ plast' = "QueueRequest"
  /\ UNCHANGED <<pstore, pflushed, prest>>

\* QueueManager.QueueResponse: self.response_queue.append(...)
QueueResponse(r) ==
  /\ Queued < MaxQueued
  /\ pbuf' = [pbuf EXCEPT !.response_queue = @ \cup {r}]
  /\ plast' = "QueueResponse"
  /\ UNCHANGED <<pstore, pflushed, prest>>

\* QueueManager.QueueClientMessage: self.new_client_messages.append(...)
QueueClientMessage(r) ==
  /\ Queued < MaxQueued
  /\ pbuf' = [pbuf EXCEPT !.new_client_messages = @ \cup {r}]
  /\ plast' = "QueueClientMessage"
  /\ UNCHANGED <<pstore, pflushed, prest>>

\* QueueManager.QueueNotification: self.notifications[key] = notification
QueueFlowNotification(r) ==
  /\ Queued < MaxQueued
  /\ pbuf' = [pbuf EXCEPT !.notifications = @ \cup {r}]
  /\ plast' = "QueueNotification"
  /\ UNCHANGED <<pstore, pflushed, prest>>

\* The buffers after QueueManager.DeQueueClientRequest.
DeQueued(buf, r) == [buf EXCEPT !.client_messages_to_delete = @ \cup {r}]

\* QueueManager.DeQueueClientRequest
DeQueueClientRequest(r) ==
  /\ Queued < MaxQueued
  /\ pbuf' = DeQueued(pbuf, r)
  /\ plast' = "DeQueueClientRequest"
  /\ UNCHANGED <<pstore, pflushed, prest>>

\* data_store.DB.DeleteRequest: the responses of the request leave the store
\* at once; the request itself stays until the manager is flushed.
DBDeleteRequest(store, r) == [store EXCEPT !.responses = @ \ {r}]

\* QueueManager.DeleteRequest: buffers the request for deletion, dequeues
\* its client message if it has one, and calls the data store.
DeleteRequest(r, client) ==
  /\ Queued + 1 < MaxQueued
  /\ pbuf' = [(IF client THEN DeQueued(pbuf, r) ELSE pbuf)
                EXCEPT !.requests_to_delete = @ \cup {r}]
  /\ pstore' = DBDeleteRequest(pstore, r)
  /\ plast' = "DeleteRequest"
  /\ UNCHANGED <<pflushed, prest>>

\* QueueManager.Flush: StoreRequestsAndResponses with the three request
\* buffers, the mutation pool with the client messages to delete and to
\* schedule, the notifications; then the buffers are emptied.
FlushBuffers ==
  /\ pstore' =
       [requests |-> (pstore.requests \cup pbuf.request_queue)
                       \ pbuf.requests_to_delete,
        responses |-> pstore.responses \cup pbuf.response_queue,
        client_messages |->
          (pstore.client_messages \ pbuf.client_messages_to_delete)
            \cup pbuf.new_client_messages,
        notifications |-> pstore.notifications \cup pbuf.notifications]
  /\ pflushed' = pstore'
  /\ pbuf' = NoBuffers
  /\ plast' = "Flush"
  /\ UNCHANGED prest

NextP ==
  \/ \E r \in Requests : QueueRequest(r)
  \/ \E r \in Requests : QueueResponse(r)
  \/ \E r \in Requests : QueueClientMessage(r)
  \/ \E r \in Requests : QueueFlowNotification(r)
  \/ \E r \in Requests : DeQueueClientRequest(r)
  \/ \E r \in Requests, client \in BOOLEAN : DeleteRequest(r, client)
  \/ FlushBuffers

SpecP == InitP /\ [][NextP]_vars

\* C26: whatever the manager is told between two calls of Flush, the store
\* holds what the last Flush left in it.
C26_NothingBeforeFlush == pstore = pflushed

(***************************************************************************)
(* Notifying a queue and reading it back over all its shards: SpecG.       *)
(***************************************************************************)
grest == <<fvars, xgroups, gothers>>

\* QueueManager.GetAllNotificationShards: the queue itself (shard 0) and
\* queue.Add(str(i)) for i in range(1, num_notification_shards).
GetAllNotificationShards == {0} \cup 1..(NumShards - 1)

\* The notifications NotifyQueue is called with: new ones, and ones read
\* from the queue before, which have their first_queued set.
Notifiable ==
  {[GrrNotification(session_id, 0, 1) EXCEPT !.first_queued = first_queued] :
     session_id \in 1..MaxNotified, first_queued \in {None} \cup 1..now}

\* QueueManager.NotifyQueue(notification, mutation_pool=pool) and the flush
\* of the pool, as at the end of QueueManager.Flush.
NotifyQueueCall(notification) ==
  /\ LET st == NotifyQueue([store |-> nstore, counter |-> shard_counter],
                           nmgr, notification)
     IN /\ nstore' = st.store
        /\ Cardinality(nstore') <= MaxStored
        /\ shard_counter' = st.counter
        /\ glast' = [called |-> TRUE, notification |-> notification,
                     at |-> now, frozen |-> nmgr.frozen_timestamp,
                     shard |-> st.counter, before |-> nstore]
  /\ nread' = <<>>
  /\ nop' = [NoOp EXCEPT !.op = "notify"]
  /\ UNCHANGED <<now, qrest, nmgr, nqueued, grest>>

NextG ==
  \/ now < MaxNotifyTime /\ Tick /\ UNCHANGED notq
  \/ Freeze /\ UNCHANGED notn
  \/ Unfreeze /\ UNCHANGED notn
  \/ \E notification \in Notifiable : NotifyQueueCall(notification)
  \/ GetNotificationsForAllShards /\ UNCHANGED notn
  \/ \E session_ids \in SUBSET (1..MaxNotified) :
       DeleteNotifications(session_ids, None, None) /\ UNCHANGED notn

SpecG == InitN /\ [][NextG]_vars

\* The shard NotifyQueue last wrote to is one of the shards of the queue, as
\* is the shard of every notification in the store; and a read returns a
\* notification for every session that has one in the store, in whatever
\* shard, within the time range of the read.
C27_WrittenIsFound ==
  /\ glast.called => glast.shard \in GetAllNotificationShards
  /\ \A x \in nstore : x.shard \in GetAllNotificationShards
  /\ nop.op = "read" =>
       \A x \in nstore :
         x.n.timestamp <= nop.end =>
           \E i \in DOMAIN nread : nread[i].session_id = x.n.session_id

\* DeleteNotifications with the default range leaves no notification of the
\* given sessions behind in any shard, up to the end of its range.
C27_Removable ==
  \A session_ids \in SUBSET (1..MaxNotified) :
    DeleteNotifications(session_ids, None, None) =>
      \A x \in nstore' :
        ~(x.n.session_id \in session_ids
          /\ x.n.timestamp <= Snapshot(nmgr.frozen_timestamp))

\* C27: GetNotificationShard returns one of GetAllNotificationShards, so
\* every notification NotifyQueue has written is found by
\* GetNotificationsForAllShards and removed by DeleteNotifications.
C27_ShardCoverage == [](C27_WrittenIsFound) /\ [][C27_Removable]_vars

\* A read has returned a notification that NotifyQueue wrote to a shard
\* other than the queue itself.
C27_Witness ==
  /\ glast.called /\ glast.shard # 0
  /\ nop.op = "read"
  /\ \E x \in nstore :
       /\ x.shard = glast.shard
       /\ \E i \in DOMAIN nread : nread[i] = x.n

\* The age in seconds, at the last call of NotifyQueue, of the notification
\* it was called with.
Age == (glast.at - glast.notification.first_queued) * SecondsPerTick

\* The notification the last call of NotifyQueue had to write: first_queued
\* as given, or the frozen timestamp of the manager, or the time of the call.
Stamped ==
  [glast.notification EXCEPT
     !.first_queued =
       IF glast.notification.first_queued # None
       THEN glast.notification.first_queued
       ELSE IF glast.frozen # None THEN glast.frozen ELSE glast.at,
     !.timestamp = glast.at]

\* C28: NotifyQueue writes nothing for a notification whose first_queued is
\* set and lies notification_expiry_time or more before now; every other
\* notification it writes, one without first_queued stamped with the frozen
\* timestamp of the manager, or with now if there is none.
C28_ExpiredDropped ==
  nop.op = "notify" =>
    IF glast.notification.first_queued # None
       /\ Age >= notification_expiry_time
    THEN nstore = glast.before
    ELSE [shard |-> glast.shard, n |-> Stamped] \in nstore

\* NotifyQueue was called with a notification first queued one expiry time
\* ago and has left the store as it was.
C28_Witness ==
  /\ nop.op = "notify"
  /\ glast.notification.first_queued # None
  /\ Age = notification_expiry_time
  /\ nstore = glast.before

(***************************************************************************)
(* One iteration of the worker over its queues: SpecT.                     *)
(***************************************************************************)
Queues == 1..MaxQueues

TakeSessions == 1..MaxTakeSessions

\* session_id.Queue(): the queue a session belongs to.
QueueOf(session_id) == (session_id % MaxQueues) + 1

\* The notification of a session as the store holds it, in one of the
\* shards of the queue of the session.
TakeCell(session_id, priority, in_progress, timestamp) ==
  [shard |-> session_id % NumShards,
   n |-> [session_id |-> session_id, priority |-> priority,
          last_status |-> 1, first_queued |-> timestamp,
          timestamp |-> timestamp, in_progress |-> in_progress]]

\* What the store may hold of one session: nothing, or one notification.
TakeCells(session_id) ==
  {{}} \cup
  {{TakeCell(session_id, priority, in_progress, timestamp)} :
     priority \in 0..MaxTakePriority, in_progress \in BOOLEAN,
     timestamp \in 1..MaxNotifyTime}

RECURSIVE TakeStores(_)
TakeStores(n) ==
  IF n = 0 THEN {{}}
  ELSE {store \cup cells : store \in TakeStores(n - 1),
                           cells \in TakeCells(n)}

InitT ==
  /\ InitQvars /\ InitNvars /\ InitFvars /\ InitXgroups
  /\ InitPvars /\ InitGvars /\ InitKvars
  /\ InitHvars
  /\ InitZvars
  /\ InitMvars
  /\ InitUvars
  /\ InitEvars
  /\ InitAvars
  /\ tstore \in TakeStores(MaxTakeSessions)
  /\ tpc = [op |-> "idle", queue |-> 0]
  /\ tfrozen = None
  /\ tavail = <<>>
  /\ ttaken = <<>>

trest == <<qrest, nvars, fvars, xgroups, tothers>>

\* The cells of a queue.
OfQueue(queue) == {x \in tstore : QueueOf(x.n.session_id) = queue}

\* MockWorker.Next: `with queue_manager.QueueManager(...) as manager`
BeginNext ==
  /\ tpc.op = "idle"
  /\ tfrozen' = now
  /\ tpc' = [op |-> "read", queue |-> 1]
  /\ tavail' = <<>>
  /\ ttaken' = <<>>
  /\ UNCHANGED <<now, tstore, trest>>

\* notifications_available = manager.GetNotificationsForAllShards(queue)
ReadQueue ==
  /\ tpc.op = "read"
  /\ \E rows \in Perms(GetNotifications(OfQueue(tpc.queue), Shards,
                                        Snapshot(tfrozen))) :
       /\ \A i, j \in DOMAIN rows : i < j => rows[i].shard <= rows[j].shard
       /\ \E notifications \in Perms(GetUnsortedNotifications(rows, {})) :
            /\ SortedByPriority(notifications)
            /\ tavail' = notifications
  /\ tpc' = [tpc EXCEPT !.op = "take"]
  /\ UNCHANGED <<now, tstore, tfrozen, ttaken, trest>>

\* The next queue of `for queue in self.queues`, or the end of the loop.
NextQueue ==
  IF tpc.queue < MaxQueues
  THEN [op |-> "read", queue |-> tpc.queue + 1]
  ELSE [op |-> "end", queue |-> tpc.queue]

\* `for notification in notifications_available[:1]`: the first of the
\* list is taken and manager.DeleteNotification(session_id,
\* end=notification.timestamp) is called; with an empty list the worker goes
\* on to the next queue.
TakeFirst ==
  /\ tpc.op = "take"
  /\ IF tavail = <<>>
     THEN /\ tpc' = NextQueue
          /\ UNCHANGED <<tstore, ttaken>>
     ELSE LET notification == tavail[1]
          IN /\ tstore' = StoreDeleteNotifications(
                            tstore, Shards, {notification.session_id}, 0,
                            notification.timestamp)
             /\ ttaken' = Append(ttaken,
                            [queue |-> tpc.queue, n |-> notification,
                             available |->
                               {x.n : x \in {y \in OfQueue(tpc.queue) :
                                      y.n.timestamp <= Snapshot(tfrozen)}},
                             ran |-> FALSE, deleted |-> FALSE])
             /\ tpc' = [tpc EXCEPT !.op = "run"]
  /\ UNCHANGED <<now, tfrozen, tavail, trest>>

\* The flow of the notification is run: a well-known flow processes its
\* responses, any other flow is opened with its lock and the runner
\* processes its completed requests.
RunFlow ==
  /\ tpc.op = "run"
  /\ LET notification == ttaken[Len(ttaken)].n
     IN ttaken' =
          [ttaken EXCEPT ![Len(ttaken)] =
             [@ EXCEPT !.ran = TRUE,
                       !.deleted =
                         \A x \in tstore :
                           ~(/\ x.n.session_id = notification.session_id
                             /\ x.n.timestamp <= notification.timestamp)]]
  /\ tpc' = NextQueue
  /\ UNCHANGED <<now, tstore, tfrozen, tavail, trest>>

\* The `with` block of the manager ends and Next returns run_sessions.
EndNext ==
  /\ tpc.op = "end"
  /\ tpc' = [op |-> "idle", queue |-> 0]
  /\ tfrozen' = None
  /\ UNCHANGED <<now, tstore, tavail, ttaken, trest>>

NextT ==
  \/ now < MaxNotifyTime /\ Tick /\ UNCHANGED notq
  \/ BeginNext
  \/ ReadQueue
  \/ TakeFirst
  \/ RunFlow
  \/ EndNext

SpecT == InitT /\ [][NextT]_vars

\* C29: in one iteration the worker takes at most one notification per
\* queue; what it takes has the highest priority among the notifications
\* available in that queue and is not flagged in-progress; and when the flow
\* is run, the range of the notification has been deleted.
C29_TakesTopNotInProgress ==
  \A i \in DOMAIN ttaken :
    /\ \A j \in DOMAIN ttaken : i # j => ttaken[i].queue # ttaken[j].queue
    /\ \A m \in ttaken[i].available : ttaken[i].n.priority >= m.priority
    /\ ~ttaken[i].n.in_progress
    /\ ttaken[i].ran => ttaken[i].deleted

(***************************************************************************)
(* A turn of the worker for a well-known flow: SpecK.                      *)
(***************************************************************************)
krest == <<qrest, nvars, fvars, xgroups, kothers>>

\* A client sends the well-known flow a message: the frontend writes it to
\* the flow's responses, with a response id of its own, at the current time.
WriteResponse(i) ==
  /\ i \notin {r.id : r \in khist.written}
  /\ LET response == [id |-> i, timestamp |-> now]
     IN /\ kstore' = kstore \cup {response}
        /\ khist' = [khist EXCEPT !.written = @ \cup {response}]
  /\ UNCHANGED <<now, kpc, kfrozen, kmessages, kpending, krest>>

\* WellKnownFlow.FetchAndRemoveRequestsAndResponses:
\* `with queue_manager.WellKnownQueueManager(...) as manager` freezes the
\* timestamp of a manager of its own.
EnterManager ==
  /\ kpc = "idle"
  /\ kpc' = "fetch"
  /\ kfrozen' = now
  /\ kmessages' = <<>>
  /\ khist' = [khist EXCEPT !.removed = {}]
  /\ UNCHANGED <<now, kstore, kpending, krest>>

\* The variant of FetchResponses that reads up to the current time.
FetchResponsesUnfrozen ==
  /\ kpc = "fetch"
  /\ kmessages' \in Perms({r \in kstore : r.timestamp <= now})
  /\ kpc' = "delete"
  /\ UNCHANGED <<now, kstore, kfrozen, kpending, khist, krest>>

\* WellKnownQueueManager.FetchResponses, collected into `messages`: the
\* responses in the range (0, frozen timestamp), in the order the store
\* yields them.
FetchResponses ==
  /\ kpc = "fetch"
  /\ kmessages' \in Perms({r \in kstore : r.timestamp <= Snapshot(kfrozen)})
  /\ kpc' = "delete"
  /\ UNCHANGED <<now, kstore, kfrozen, kpending, khist, krest>>

\* manager.DeleteWellKnownFlowResponses(session_id, messages): the store
\* deletes the responses it is given.
DeleteWellKnownFlowResponses ==
  /\ kpc = "delete"
  /\ kstore' = kstore \ Range(kmessages)
  /\ khist' = [khist EXCEPT !.removed = kstore \ kstore']
  /\ kpc' = "exit"
  /\ UNCHANGED <<now, kfrozen, kmessages, kpending, krest>>

\* The `with` block ends (Flush with empty buffers, UnfreezeTimestamp) and
\* FetchAndRemoveRequestsAndResponses returns `messages`.
ExitManager ==
  /\ kpc = "exit"
  /\ kpc' = "returned"
  /\ UNCHANGED <<now, kstore, kfrozen, kmessages, kpending, khist, krest>>

\* WellKnownFlow.ProcessResponses: one task of the thread pool for every
\* response.
ProcessResponses ==
  /\ kpc = "returned"
  /\ kpending' = {kmessages[i].id : i \in DOMAIN kmessages}
  /\ kpc' = "processing"
  /\ UNCHANGED <<now, kstore, kfrozen, kmessages, khist, krest>>

\* The variant that calls ProcessMessage without the try block: what it
\* raises is left to the thread pool, which logs it.
UnsafeProcessMessage(h, i, raises) ==
  [h EXCEPT !.processed[i] = @ + 1,
               !.raised = IF raises THEN @ \cup {i} ELSE @]

\* WellKnownFlow._SafeProcessMessage: ProcessMessage is called with the
\* response; what it raises is logged and counted in the counter
\* well_known_flow_errors.
SafeProcessMessage(h, i, raises) ==
  [h EXCEPT !.processed[i] = @ + 1,
               !.raised = IF raises THEN @ \cup {i} ELSE @,
               !.errors = IF raises THEN @ + 1 ELSE @]

\* A task of the thread pool runs: MockThreadPool.AddTask calls
\* _SafeProcessMessage with the response.
ProcessMessage(i, raises) ==
  /\ kpc = "processing" /\ i \in kpending
  /\ kpending' = kpending \ {i}
  /\ khist' = SafeProcessMessage(khist, i, raises)
  /\ UNCHANGED <<now, kstore, kpc, kfrozen, kmessages, krest>>

\* pool.Join(): all tasks have run, the turn is over.
JoinPool ==
  /\ kpc = "processing" /\ kpending = {}
  /\ kpc' = "idle"
  /\ kfrozen' = None
  /\ UNCHANGED <<now, kstore, kmessages, kpending, khist, krest>>

NextK ==
  \/ now < MaxNotifyTime /\ Tick /\ UNCHANGED notq
  \/ \E i \in ResponseNumbers : WriteResponse(i)
  \/ EnterManager
  \/ FetchResponses
  \/ DeleteWellKnownFlowResponses
  \/ ExitManager
  \/ ProcessResponses
  \/ \E i \in ResponseNumbers, raises \in BOOLEAN : ProcessMessage(i, raises)
  \/ JoinPool

SpecK == InitN /\ [][NextK]_vars

\* The responses FetchAndRemoveRequestsAndResponses has returned.
ReturnedResponses == Range(kmessages)

\* C30: FetchAndRemoveRequestsAndResponses returns exactly the responses it
\* has removed from the store; a response is handed to ProcessMessage once,
\* when the tasks of the turn have run, and never more than once; a response
\* written after the frozen timestamp of the turn stays in the store.
C30_FetchedRemovedProcessedOnce ==
  /\ kpc \in {"exit", "returned", "processing"} =>
       ReturnedResponses = khist.removed
  /\ \A i \in ResponseNumbers : khist.processed[i] <= 1
  /\ \A r \in khist.written :
       /\ khist.processed[r.id] = 1 =>
            r \in ReturnedResponses \/ r \notin kstore
       /\ (kpc = "processing" /\ kpending = {} /\ r \in ReturnedResponses)
            => khist.processed[r.id] = 1
       /\ (r \in kstore \/ khist.processed[r.id] = 1 \/ r.id \in kpending
           \/ r \in ReturnedResponses)
       /\ (kfrozen # None /\ r.timestamp > kfrozen) => r \in kstore

\* The tasks of a turn have run: a response was returned, removed and handed
\* to ProcessMessage, and one written after the frozen timestamp of the turn
\* is still in the store.
C30_Witness ==
  /\ kpc = "processing" /\ kpending = {}
  /\ \E r \in ReturnedResponses :
       r \in khist.removed /\ khist.processed[r.id] = 1
  /\ \E r \in kstore : r.timestamp > kfrozen

InitA ==
  /\ InitQvars /\ InitNvars /\ InitFvars /\ InitXgroups
  /\ InitPvars /\ InitGvars /\ InitTvars /\ InitKvars
  /\ InitHvars
  /\ InitZvars
  /\ InitMvars
  /\ InitUvars
  /\ InitEvars
  /\ amessage \in ActionMessages
  /\ aobj = NewAction
  /\ asent = <<>>

arest == <<now, qrest, nvars, fvars, xgroups, aothers>>

\* The variant of SendReply that leaves the response id as it is.
SendReplySameId(obj, sent, message_type) ==
  [obj |-> obj,
   sent |-> Append(sent, [response_id |-> obj.response_id,
                          type |-> message_type])]

\* ActionPlugin.SendReply: the reply goes out with self.response_id, then
\* `self.response_id += 1`.
SendReply(obj, sent, message_type) ==
  [obj |-> [obj EXCEPT !.response_id = @ + 1],
   sent |-> Append(sent, [response_id |-> obj.response_id,
                          type |-> message_type])]

\* ActionPlugin.Execute up to the call of Run: arguments of another type
\* than the action expects raise RuntimeError out of Execute; the status
\* starts as OK; a message that is not authenticated raises inside the try
\* block, which sets the status to GENERIC_ERROR.
ExecuteBegin ==
  /\ aobj.pc = "new"
  /\ aobj' = IF ~amessage.args_ok THEN [aobj EXCEPT !.pc = "raised"]
             ELSE IF ~amessage.authenticated
             THEN [aobj EXCEPT !.status = "GENERIC_ERROR", !.pc = "finish"]
             ELSE [aobj EXCEPT !.status = "OK", !.pc = "run"]
  /\ UNCHANGED <<amessage, asent, arest>>

\* Run calls self.SendReply(...): the reply is sent, or the client worker
\* raises and sends nothing, which ends Run with the exception.
RunSendReply(delivered) ==
  /\ aobj.pc = "run"
  /\ Len(asent) + 2 <= MaxReplies
  /\ IF delivered
     THEN LET r == SendReply(aobj, asent, "MESSAGE")
          IN aobj' = r.obj /\ asent' = r.sent
     ELSE /\ aobj' = [aobj EXCEPT !.status = "GENERIC_ERROR",
                                  !.pc = "finish"]
          /\ UNCHANGED asent
  /\ UNCHANGED <<amessage, arest>>

\* Run raises: `except Exception` sets the status to GENERIC_ERROR.
RunRaise ==
  /\ aobj.pc = "run"
  /\ aobj' = [aobj EXCEPT !.status = "GENERIC_ERROR", !.pc = "finish"]
  /\ UNCHANGED <<amessage, asent, arest>>

\* Run returns; the Run of an IteratedAction sends the iterator back first.
RunReturn ==
  /\ aobj.pc = "run"
  /\ IF amessage.iterated
     THEN LET r == SendReply(aobj, asent, "ITERATOR")
          IN aobj' = [r.obj EXCEPT !.pc = "finish"] /\ asent' = r.sent
     ELSE aobj' = [aobj EXCEPT !.pc = "finish"] /\ UNCHANGED asent
  /\ UNCHANGED <<amessage, arest>>

\* The end of Execute: self.SendReply(self.status, message_type=STATUS); if
\* the client worker raises, the exception leaves Execute.
ExecuteEnd(delivered) ==
  /\ aobj.pc = "finish"
  /\ IF delivered
     THEN LET r == SendReply(aobj, asent, "STATUS")
          IN aobj' = [r.obj EXCEPT !.pc = "done"] /\ asent' = r.sent
     ELSE aobj' = [aobj EXCEPT !.pc = "raised"] /\ UNCHANGED asent
  /\ UNCHANGED <<amessage, arest>>

NextA ==
  \/ ExecuteBegin
  \/ \E delivered \in BOOLEAN : RunSendReply(delivered)
  \/ RunRaise
  \/ RunReturn
  \/ \E delivered \in BOOLEAN : ExecuteEnd(delivered)

SpecA == InitA /\ [][NextA]_vars

\* C32: the replies of one execution of a client action carry the response
\* ids 1, 2, 3, ... in send order, and the STATUS reply is the last one
\* sent; an execution that has ended normally has sent it.
C32_ResponseIdsInOrder ==
  /\ \A i \in DOMAIN asent : asent[i].response_id = i
  /\ \A i \in DOMAIN asent : asent[i].type = "STATUS" => i = Len(asent)
  /\ aobj.pc = "done" => asent[Len(asent)].type = "STATUS"

\* An execution has ended after two replies and an error status with
\* response id 3.
C32_Witness ==
  /\ aobj.pc = "done" /\ Len(asent) = 3
  /\ asent[3] = [response_id |-> 3, type |-> "STATUS"]
  /\ aobj.status = "GENERIC_ERROR"

(***************************************************************************)
(* The test harness runs client and worker until nothing changes: SpecE.   *)
(***************************************************************************)
InitE ==
  /\ InitQvars /\ InitNvars /\ InitFvars /\ InitXgroups
  /\ InitPvars /\ InitGvars /\ InitTvars /\ InitKvars
  /\ InitHvars
  /\ InitZvars
  /\ InitMvars
  /\ InitUvars
  /\ InitAvars
  /\ einput \in HelperInputs
  /\ estore = NoRun
  /\ ehelper = [pc |-> "start", client_processed |-> 0, flows_run |-> {},
                total_flows |-> {}]

erest == <<now, qrest, nvars, fvars, xgroups, eothers>>

\* The session id of the flow that TestFlowHelper starts.
HelperSession == "F:1"

\* GRRFlow.StartFlow with sync=True for a flow whose Start calls the client
\* once: the flow is RUNNING, its request is stored and the task is in the
\* client's queue.
StartOneRequest(st) ==
  [st EXCEPT !.state = "RUNNING", !.task = "queued", !.request = 1,
             !.issued = 1]

\* TestFlowHelper up to the loop.
HelperStart ==
  /\ ehelper.pc = "start"
  /\ estore' = StartOneRequest(estore)
  /\ ehelper' = [ehelper EXCEPT !.pc = "client",
                                !.total_flows = {HelperSession}]
  /\ UNCHANGED <<einput, erest>>

\* The responses MockClient.Next pushes for one request: the responses of
\* the mock, then a status (OK when the mock returned, GENERIC_ERROR and no
\* responses when it raised, none when the mock enforces no status).
ClientResponses(input) ==
  CASE input.mock = "returns" ->
         [i \in 1..input.responses |-> "MESSAGE"] \o <<"OK">>
    [] input.mock = "raises" -> <<"GENERIC_ERROR">>
    [] OTHER -> [i \in 1..input.responses |-> "MESSAGE"]

\* The variant of MockClientNext that queues no notification.
MockClientNextUnnotified(st, input) ==
  IF st.task = "queued"
  THEN [st EXCEPT !.task = "leased",
                  !.responses = ClientResponses(input)]
  ELSE st

\* MockClient.Next: QueryAndOwn with limit=1 leases the task for 10000 s;
\* the responses and the status are queued, then a notification for the
\* session, and the manager flushes them on exit.
MockClientNext(st, input) ==
  IF st.task = "queued"
  THEN [st EXCEPT !.task = "leased",
                  !.responses = ClientResponses(input),
                  !.notified = TRUE]
  ELSE st

\* client_processed = client_mock.Next()
ClientStep ==
  /\ ehelper.pc = "client"
  /\ estore' = MockClientNext(estore, einput)
  /\ ehelper' = [ehelper EXCEPT
       !.pc = "worker",
       !.client_processed = IF estore.task = "queued" THEN 1 ELSE 0]
  /\ UNCHANGED <<einput, erest>>

\* A request is complete when a status is among its responses.
RequestComplete(st) ==
  /\ st.request # 0
  /\ \E i \in DOMAIN st.responses : st.responses[i] \in {"OK", "GENERIC_ERROR"}

\* The runner's ProcessCompletedRequests: a complete request is removed
\* with its responses and its client task and its next-state handler runs;
\* a handler that raises puts the flow in ERROR, one that calls the client
\* again leaves a new request and task, and a flow left without outstanding
\* requests runs End and is TERMINATED.
ProcessCompletedRequests(st, input) ==
  IF ~RequestComplete(st) \/ st.state # "RUNNING" THEN st
  ELSE LET run == [st EXCEPT !.handled = @ + 1, !.responses = <<>>,
                             !.task = "none", !.request = 0]
       IN IF input.handler = "raise" THEN [run EXCEPT !.state = "ERROR"]
          ELSE IF st.issued < input.requests
          THEN [run EXCEPT !.task = "queued", !.request = st.request + 1,
                           !.issued = @ + 1]
          ELSE [run EXCEPT !.state = "TERMINATED"]

\* MockWorker.Next for the one queue of the flow: the notification is taken
\* and deleted, the flow is run, and with check_flow_errors a flow in ERROR
\* raises RuntimeError out of Next and out of TestFlowHelper.
MockWorkerNext(st, input) ==
  IF st.notified
  THEN ProcessCompletedRequests([st EXCEPT !.notified = FALSE], input)
  ELSE st

WorkerStep ==
  /\ ehelper.pc = "worker"
  /\ estore' = MockWorkerNext(estore, einput)
  /\ ehelper' = [ehelper EXCEPT
       !.pc = IF /\ estore.notified /\ einput.check_flow_errors
                 /\ estore'.state = "ERROR"
              THEN "raised" ELSE "loop",
       !.flows_run = IF estore.notified THEN {HelperSession} ELSE {},
       !.total_flows = IF estore.notified THEN @ \cup {HelperSession} ELSE @]
  /\ UNCHANGED <<einput, erest>>

\* `if client_processed == 0 and not flows_run: break`, else yield and go
\* round again.
EndIteration ==
  /\ ehelper.pc = "loop"
  /\ ehelper' = [ehelper EXCEPT
       !.pc = IF ehelper.client_processed = 0 /\ ehelper.flows_run = {}
              THEN "check" ELSE "client"]
  /\ UNCHANGED <<einput, estore, erest>>

\* CheckFlowErrors, called when check_flow_errors is set: a flow that is not
\* TERMINATED raises RuntimeError.
CheckFlowErrors ==
  /\ ehelper.pc = "check"
  /\ ehelper' = [ehelper EXCEPT
       !.pc = IF einput.check_flow_errors /\ estore.state # "TERMINATED"
              THEN "raised" ELSE "done"]
  /\ UNCHANGED <<einput, estore, erest>>

NextE ==
  \/ HelperStart
  \/ ClientStep
  \/ WorkerStep
  \/ EndIteration
  \/ CheckFlowErrors

SpecE == InitE /\ [][NextE]_vars

\* The caller iterates the generator to its end, and every round of its loop
\* runs the client and then the worker.
FairSpecE == SpecE /\ WF_vars(NextE)

\* The client mock returns its responses (so the status is OK) and the
\* flow's next-state handler does not raise.
ClientAnswersOk == einput.mock = "returns" /\ einput.handler = "return"

\* The client has just leased the task and written responses, status and
\* notification.
ClientAnswered ==
  /\ ehelper.pc = "worker" /\ ehelper.client_processed = 1
  /\ estore.notified

\* Client and worker have nothing left to do.
NothingLeft == ehelper.pc \in {"check", "done"}

urest == <<now, qrest, nvars, fvars, xgroups, uothers>>

\* The dispatches of a state handler: with a termination pending on a flow
\* open for reading, with a pre-built direct response, or with the responses
\* of a request, which are empty or end in a status that is OK or an error
\* and reports the CPU and the network usage of the client.
UsageDispatches ==
  [pending : BOOLEAN, kind : {"direct", "empty", "status"},
   status : {"OK", "GENERIC_ERROR"},
   usage : [cpu : 0..MaxUsage, net : 0..MaxUsage]]

\* runner.SaveResourceUsage: the usage the status reports is added to the
\* usage in the context.
SaveResourceUsage(context, status) ==
  [cpu |-> context.cpu + status.usage.cpu,
   net |-> context.net + status.usage.net]

\* StateHandler's Decorated, for the usage in the context: a pending
\* termination returns first, a direct response goes to the handler as it
\* is, and `if responses.status:` calls SaveResourceUsage for the status the
\* collated responses hold.
DecoratedUsage(context, d) ==
  IF d.pending THEN context
  ELSE IF d.kind = "direct" THEN context
  ELSE IF d.kind = "status" THEN SaveResourceUsage(context, d)
  ELSE context

\* What the statuses of the collated requests reported, by kind of status.
Reported(h, d) ==
  LET collated == ~d.pending /\ d.kind = "status"
      plus(u) == [cpu |-> u.cpu + d.usage.cpu, net |-> u.net + d.usage.net]
  IN [ok |-> IF collated /\ d.status = "OK" THEN plus(h.ok) ELSE h.ok,
      failed |-> IF collated /\ d.status # "OK" THEN plus(h.failed)
                 ELSE h.failed,
      n |-> h.n + 1]

\* One dispatch of a state handler of the flow.
DispatchWithUsage(d) ==
  /\ uhist.n < MaxDispatches
  /\ ucontext' = DecoratedUsage(ucontext, d)
  /\ uhist' = Reported(uhist, d)
  /\ UNCHANGED urest

NextU == \E d \in UsageDispatches : DispatchWithUsage(d)

SpecU == InitN /\ [][NextU]_vars

\* C34: the usage in the context of the flow is the sum of the usage
\* reported by the statuses of its successfully collated requests: a
\* dispatch with a failed status or with a direct response adds nothing.
C34_UsageOfSuccessfulOnly == ucontext = uhist.ok

\* The usage in the context is the sum over the statuses of all collated
\* requests, successful or failed, each counted once.
UsageOfEveryStatus ==
  /\ ucontext.cpu = uhist.ok.cpu + uhist.failed.cpu
  /\ ucontext.net = uhist.ok.net + uhist.failed.net

(***************************************************************************)
(* QueueManager.Flush, write by write: SpecM.                              *)
(***************************************************************************)
\* Everything but the manager's store and buffers and the position of Flush.
mrest ==
  <<now, qrest, nvars, fvars, xgroups, gvars, tvars, kvars, avars, evars, uvars, zvars, hvars>>

\* The variant of FlushSteps that notifies first.
FlushStepsNotifyFirst == <<"notifications", "requests", "client_messages",
                           "reset">>

\* The statements of QueueManager.Flush in their order: the call of
\* StoreRequestsAndResponses, the mutation pool with the client messages,
\* the notifications with the flush of the pool, the reset of the buffers.
FlushSteps == <<"requests", "client_messages", "notifications", "reset">>

FlushAt(step) == mpc # 0 /\ FlushSteps[mpc] = step

\* Flush is called.
BeginFlush ==
  /\ mpc = 0
  /\ mpc' = 1
  /\ mflush' = pstore
  /\ UNCHANGED <<pvars, mrest>>

\* data_store.StoreRequestsAndResponses(new_requests, new_responses,
\* requests_to_delete)
WriteRequestsAndResponses ==
  /\ FlushAt("requests")
  /\ pstore' = [pstore EXCEPT
       !.requests = (@ \cup pbuf.request_queue) \ pbuf.requests_to_delete,
       !.responses = @ \cup pbuf.response_queue]
  /\ mpc' = mpc + 1
  /\ UNCHANGED <<pbuf, pflushed, plast, mflush, mrest>>

\* `with mutation_pool:` the client messages to delete are deleted and the
\* new client messages scheduled.
WriteClientMessages ==
  /\ FlushAt("client_messages")
  /\ pstore' = [pstore EXCEPT
       !.client_messages = (@ \ pbuf.client_messages_to_delete)
                             \cup pbuf.new_client_messages]
  /\ mpc' = mpc + 1
  /\ UNCHANGED <<pbuf, pflushed, plast, mflush, mrest>>

\* `if self.notifications:` NotifyQueue for each, then mutation_pool.Flush()
WriteNotifications ==
  /\ FlushAt("notifications")
  /\ pstore' = [pstore EXCEPT !.notifications = @ \cup pbuf.notifications]
  /\ mpc' = mpc + 1
  /\ UNCHANGED <<pbuf, pflushed, plast, mflush, mrest>>

\* The six buffers are reset and Flush returns.
ResetBuffers ==
  /\ FlushAt("reset")
  /\ pbuf' = NoBuffers
  /\ plast' = "Flush"
  /\ mpc' = IF mpc = Len(FlushSteps) THEN 0 ELSE mpc + 1
  /\ mflush' = IF mpc = Len(FlushSteps) THEN StoreOf({}) ELSE mflush
  /\ UNCHANGED <<pstore, pflushed, mrest>>

\* The manager is used by one thread: nothing is queued while Flush runs.
NextM ==
  \/ /\ mpc = 0
     /\ \/ \E r \in Requests : QueueRequest(r)
        \/ \E r \in Requests : QueueResponse(r)
        \/ \E r \in Requests : QueueClientMessage(r)
        \/ \E r \in Requests : QueueFlowNotification(r)
        \/ \E r \in Requests : DeQueueClientRequest(r)
        \/ \E r \in Requests, client \in BOOLEAN : DeleteRequest(r, client)
  \/ BeginFlush
  \/ WriteRequestsAndResponses
  \/ WriteClientMessages
  \/ WriteNotifications
  \/ ResetBuffers

SpecM == InitP /\ [][NextM]_vars

\* The notifications the Flush under way has put in the store.
FlushedNotifications ==
  (pstore.notifications \ mflush.notifications) \cap pbuf.notifications

\* A reader of the store finds every request and response of the Flush
\* (but a request that the same Flush deletes).
RequestsAndResponsesWritten ==
  /\ pbuf.request_queue \ pbuf.requests_to_delete \subseteq pstore.requests
  /\ pbuf.response_queue \subseteq pstore.responses

\* C36: a reader that finds a notification written by a Flush finds every
\* request and response of that Flush; when Flush has returned the six
\* buffers are empty, and a Flush called with empty buffers writes nothing.
C36_NotificationsLast ==
  /\ mpc # 0 /\ FlushedNotifications # {} => RequestsAndResponsesWritten
  /\ mpc = 0 /\ plast = "Flush" => pbuf = NoBuffers
  /\ mpc # 0 /\ pbuf = NoBuffers => pstore = mflush

\* A Flush with a new request, a response and a notification buffered has
\* written the notification and not yet returned.
C36_Witness ==
  /\ mpc # 0 /\ FlushedNotifications # {}
  /\ pbuf.response_queue # {}
  /\ pbuf.request_queue \ mflush.requests # {}

\* A second Flush right after a Flush is at its end.
SecondFlushWitness ==
  /\ FlushAt("reset") /\ pbuf = NoBuffers /\ plast = "Flush"
  /\ pstore.notifications # {}

(***************************************************************************)
(* Freezing, `with` blocks and copies of managers: SpecV for one manager,  *)
(* SpecZ for a manager and its copies.                                     *)
(***************************************************************************)
zrest == <<qrest, nvars, fvars, xgroups, zothers>>

\* Manager i as an object: its prev_frozen_timestamps is the list object it
\* refers to.
ManagerObject(i) ==
  [frozen_timestamp |-> zmgr[i].frozen_timestamp,
   prev_frozen_timestamps |-> zlists[zmgr[i].stack],
   notifications |-> {}, pending |-> zmgr[i].pending]

\* Manager i becomes m: its fields are assigned and its list object holds
\* what m's list holds.
Assigned(i, m) ==
  /\ zmgr' = [zmgr EXCEPT ![i].frozen_timestamp = m.frozen_timestamp,
                          ![i].pending = m.pending]
  /\ zlists' = [zlists EXCEPT ![zmgr[i].stack] = m.prev_frozen_timestamps]

Pushed(i, block) ==
  Append(zghost[i], [before |-> zmgr[i].frozen_timestamp, at |-> now,
                     block |-> block])

Unmatched(i) == zghost[i][Len(zghost[i])]

Popped(i) ==
  IF zghost[i] = <<>> THEN <<>>
  ELSE SubSeq(zghost[i], 1, Len(zghost[i]) - 1)

\* manager.FreezeTimestamp()
CallFreeze(i) ==
  /\ zmgr[i].live
  /\ Len(zlists[zmgr[i].stack]) < MaxNesting
  /\ Len(zghost[i]) < MaxNesting
  /\ Assigned(i, FreezeTimestamp(ManagerObject(i), now))
  /\ zghost' = [zghost EXCEPT ![i] = Pushed(i, FALSE)]
  /\ zlast' = [NoManagerCall EXCEPT !.op = "freeze", !.mgr = i]
  /\ UNCHANGED <<now, zrest>>

\* manager.UnfreezeTimestamp(), called by code that pairs its calls inside a
\* `with` block: outside its pairs it calls only with nothing frozen.
CallUnfreeze(i) ==
  /\ zmgr[i].live
  /\ IF zghost[i] = <<>> THEN TRUE ELSE ~Unmatched(i).block
  /\ Assigned(i, UnfreezeTimestamp(ManagerObject(i)))
  /\ zghost' = [zghost EXCEPT ![i] = Popped(i)]
  /\ zlast' = [NoManagerCall EXCEPT
       !.op = "unfreeze", !.mgr = i,
       !.raised = zlists[zmgr[i].stack] = <<>>,
       !.matched = zghost[i] # <<>>,
       !.expected = IF zghost[i] # <<>> THEN Unmatched(i).before
                    ELSE zmgr[i].frozen_timestamp]
  /\ UNCHANGED <<now, zrest>>

\* QueueManager.__enter__: FreezeTimestamp, return self.
EnterBlock(i) ==
  /\ zmgr[i].live
  /\ Len(zlists[zmgr[i].stack]) < MaxNesting
  /\ Len(zghost[i]) < MaxNesting
  /\ Assigned(i, FreezeTimestamp(ManagerObject(i), now))
  /\ zghost' = [zghost EXCEPT ![i] = Pushed(i, TRUE)]
  /\ zlast' = [NoManagerCall EXCEPT !.op = "enter", !.mgr = i]
  /\ UNCHANGED <<now, zrest>>

\* A mutation is buffered in the manager (QueueResponse, QueueNotification
\* and the like).
QueueMutation(i) ==
  /\ zmgr[i].live
  /\ zmgr[i].pending < MaxPending
  /\ zmgr' = [zmgr EXCEPT ![i].pending = @ + 1]
  /\ zlast' = [NoManagerCall EXCEPT !.op = "queue", !.mgr = i]
  /\ UNCHANGED <<now, zlists, zghost, zrest>>

\* The variant of ManagerExit that unfreezes before it flushes.
ManagerExitUnfreezeFirst(m) ==
  LET unfrozen == UnfreezeTimestamp(m)
  IN [mgr |-> [unfrozen EXCEPT !.pending = 0],
      flushed |-> unfrozen.frozen_timestamp, written |-> m.pending]

\* QueueManager.__exit__: self.Flush(), which writes what is buffered with
\* the frozen timestamp then in force, and then self.UnfreezeTimestamp().
ManagerExit(m) ==
  LET flushed == [m EXCEPT !.pending = 0]
  IN [mgr |-> UnfreezeTimestamp(flushed),
      flushed |-> m.frozen_timestamp, written |-> m.pending]

\* The `with` block of manager i is left, by return or (exc) by an
\* exception raised in its body, which __exit__ lets pass.
ExitBlock(i, exc) ==
  /\ zmgr[i].live
  /\ IF zghost[i] = <<>> THEN FALSE ELSE Unmatched(i).block
  /\ LET exit == ManagerExit(ManagerObject(i))
     IN /\ Assigned(i, exit.mgr)
        /\ zlast' = [NoManagerCall EXCEPT
             !.op = "exit", !.mgr = i, !.exc = exc, !.matched = TRUE,
             !.expected = Unmatched(i).before, !.turn = Unmatched(i).at,
             !.flushed = exit.flushed, !.written = exit.written]
  /\ zghost' = [zghost EXCEPT ![i] = Popped(i)]
  /\ UNCHANGED <<now, zrest>>

\* The variant of CopyOf with a list object of its own.
CopyOfOwnList(m, j) ==
  [live |-> TRUE, frozen_timestamp |-> m.frozen_timestamp, stack |-> j,
   pending |-> 0]

\* QueueManager.Copy: a new manager (nothing buffered), then
\* `result.prev_frozen_timestamps = self.prev_frozen_timestamps`, the same
\* list object, and `result.frozen_timestamp = self.frozen_timestamp`.
CopyOf(m, j) ==
  [live |-> TRUE, frozen_timestamp |-> m.frozen_timestamp, stack |-> m.stack,
   pending |-> 0]

\* Manager j is the result of manager i's Copy.
CopyManager(i, j) ==
  /\ zmgr[i].live /\ ~zmgr[j].live
  /\ zmgr' = [zmgr EXCEPT ![j] = CopyOf(zmgr[i], j)]
  /\ zlast' = [NoManagerCall EXCEPT !.op = "copy", !.mgr = j]
  /\ UNCHANGED <<now, zlists, zghost, zrest>>

\* The clock.
TickZ ==
  /\ now < MaxTime
  /\ now' = now + 1
  /\ UNCHANGED <<qrest, nvars, fvars, xvars>>

ManagerCalls(i) ==
  \/ CallFreeze(i)
  \/ CallUnfreeze(i)
  \/ EnterBlock(i)
  \/ QueueMutation(i)
  \/ \E exc \in BOOLEAN : ExitBlock(i, exc)

NextV == TickZ \/ ManagerCalls(1)

SpecV == InitN /\ [][NextV]_vars

\* A manager and its copies, used outside `with` blocks.
NextZ ==
  \/ TickZ
  \/ \E i \in Managers : CallFreeze(i)
  \/ \E i \in Managers : CallUnfreeze(i)
  \/ \E i \in Managers : QueueMutation(i)
  \/ \E i, j \in Managers : CopyManager(i, j)

SpecZ == InitN /\ [][NextZ]_vars

\* C37: on one manager an UnfreezeTimestamp restores the frozen timestamp in
\* force before the matching FreezeTimestamp; after the outermost one the
\* manager is unfrozen; one with no matching FreezeTimestamp raises and
\* leaves the frozen timestamp as it is.
C37_FreezeNestsAsStack ==
  zlast.op = "unfreeze" =>
    /\ zlast.raised <=> ~zlast.matched
    /\ zmgr[zlast.mgr].frozen_timestamp = zlast.expected
    /\ zghost[zlast.mgr] = <<>> => zmgr[zlast.mgr].frozen_timestamp = None

\* The inner UnfreezeTimestamp of two nested pairs has restored a frozen
\* timestamp that is neither None nor the clock's.
C37_Witness ==
  /\ zlast.op = "unfreeze" /\ zlast.matched
  /\ Len(zghost[1]) = 1 /\ zghost[1][1].before = None
  /\ zmgr[1].frozen_timestamp \notin {None, now}
  /\ zmgr[1].frozen_timestamp = zlast.expected

\* An UnfreezeTimestamp with nothing frozen has raised.
UnbalancedWitness == zlast.op = "unfreeze" /\ zlast.raised

\* C38: when a `with` block of a manager is left, by return or by an
\* exception of its body, what the turn buffered has been written with the
\* turn's frozen timestamp in force, and afterwards the frozen timestamp is
\* the one the manager had before the block was entered.
C38_FlushThenUnfreeze ==
  zlast.op = "exit" =>
    /\ zlast.flushed = zlast.turn
    /\ zmgr[zlast.mgr].pending = 0
    /\ zmgr[zlast.mgr].frozen_timestamp = zlast.expected

\* An inner block has been left by an exception, with a mutation written
\* under its own frozen timestamp and the outer block's one restored.
C38_Witness ==
  /\ zlast.op = "exit" /\ zlast.exc /\ zlast.written = 1
  /\ zlast.expected # None /\ zlast.flushed # zlast.expected
  /\ zmgr[1].frozen_timestamp = zlast.expected

\* Copy returns a manager with the frozen timestamp of the original and
\* nothing buffered.
CopyAsOriginal ==
  [][\A i, j \in Managers : CopyManager(i, j) =>
       /\ zmgr'[j].frozen_timestamp = zmgr[i].frozen_timestamp
       /\ zmgr'[j].pending = 0
       /\ zmgr'[i] = zmgr[i]]_vars

\* What manager i holds: its frozen timestamp and the previous ones.
Frozen(i) ==
  <<zmgr[i].frozen_timestamp, zlists[zmgr[i].stack]>>

\* C39: the copy has the frozen timestamp of the original and nothing
\* buffered, and a FreezeTimestamp or UnfreezeTimestamp call on one of the
\* two leaves the frozen timestamp and the previous frozen timestamps of
\* the other as they are.
C39_CopyIndependent ==
  [][/\ \A i, j \in Managers : CopyManager(i, j) =>
          /\ zmgr'[j].frozen_timestamp = zmgr[i].frozen_timestamp
          /\ zmgr'[j].pending = 0
     /\ \A i, j \in Managers :
          /\ i # j /\ zmgr[i].live /\ zmgr[j].live
          /\ CallFreeze(j) \/ CallUnfreeze(j)
          => Frozen(i)' = Frozen(i)
    ]_vars

(***************************************************************************)
(* Reading the notifications of a store in any order: SpecH.               *)
(***************************************************************************)
hrest == <<now, qrest, nvars, fvars, xgroups, hothers>>

\* The cells a store may hold for a queue: notifications as written, with
\* first_queued set, in one of the shards.
StoredCells ==
  [shard : GetAllNotificationShards,
   n : [session_id : 1..MaxNotified, priority : {0},
        last_status : 1..MaxStatus, first_queued : 1..MaxNotifyTime,
        timestamp : 1..MaxNotifyTime]]

\* The store keeps one cell per shard, session id and timestamp.
OneCellPerKey(cells) ==
  \A x, y \in cells :
    /\ x.shard = y.shard /\ x.n.session_id = y.n.session_id
    /\ x.n.timestamp = y.n.timestamp
    => x = y

RECURSIVE CellSets(_)
CellSets(k) ==
  IF k = 0 THEN {{}}
  ELSE LET smaller == CellSets(k - 1)
       IN smaller \cup
          {c \cup {x} : c \in smaller, x \in StoredCells}

InitH ==
  /\ InitQvars /\ InitNvars /\ InitFvars /\ InitXgroups
  /\ InitPvars /\ InitGvars /\ InitTvars /\ InitKvars
  /\ InitAvars /\ InitEvars /\ InitUvars /\ InitMvars /\ InitZvars
  /\ hstore \in {c \in CellSets(MaxCells) : OneCellPerKey(c)}
  /\ hreads = <<>>

\* A read of the shards `queue_shards` by a manager whose frozen timestamp
\* or clock is `end_time`, the store yielding the rows of each shard in the
\* order `rows`; GetNotificationsForAllShards goes shard after shard.
ReadNotifications(queue_shards, end_time, rows) ==
  /\ Len(hreads) < 2
  /\ hreads # <<>> =>
       /\ hreads[1].queue_shards = queue_shards
       /\ hreads[1].end_time = end_time
  /\ Range(rows) = GetNotifications(hstore, queue_shards, end_time)
  /\ \A i, j \in DOMAIN rows : i < j => rows[i].shard <= rows[j].shard
  /\ hreads' = Append(hreads,
       [queue_shards |-> queue_shards, end_time |-> end_time,
        rows |-> rows,
        notifications |-> GetUnsortedNotifications(rows, {})])
  /\ UNCHANGED <<hstore, hrest>>

\* GetNotifications / GetNotificationsByPriority: the one shard that
\* GetNotificationShard picks.
ReadShard(queue_shard, end_time) ==
  \E rows \in Perms(GetNotifications(hstore, {queue_shard}, end_time)) :
    ReadNotifications({queue_shard}, end_time, rows)

\* GetNotificationsForAllShards / GetNotificationsByPriorityForAllShards
ReadAllShards(end_time) ==
  \E rows \in Perms(GetNotifications(hstore, GetAllNotificationShards,
                                     end_time)) :
    ReadNotifications(GetAllNotificationShards, end_time, rows)

NextH ==
  \/ \E queue_shard \in GetAllNotificationShards,
        end_time \in 1..MaxNotifyTime : ReadShard(queue_shard, end_time)
  \/ \E end_time \in 1..MaxNotifyTime : ReadAllShards(end_time)

SpecH == InitH /\ [][NextH]_vars

\* What a read could see of session s.
SeenOf(read, s) ==
  {x.n : x \in {y \in GetNotifications(hstore, read.queue_shards,
                                       read.end_time) :
                  y.n.session_id = s}}

\* A read returns one notification for every session id it could see any
\* of, and none that was scheduled before another one of that session id.
LatestPerSession(read) ==
  /\ \A n1, n2 \in read.notifications :
       n1.session_id = n2.session_id => n1 = n2
  /\ \A s \in 1..MaxNotified :
       SeenOf(read, s) # {} =>
         \E n \in read.notifications :
           /\ n \in SeenOf(read, s)
           /\ \A other \in SeenOf(read, s) : ~ScheduledLater(other, n)

\* C40 as stated: a read returns one notification per session id, the one
\* with the latest first_queued and among those the highest last_status,
\* and two reads of the same store return the same, whatever the order of
\* the rows.
C40_LatestWhateverTheOrder ==
  /\ \A i \in DOMAIN hreads : LatestPerSession(hreads[i])
  /\ Len(hreads) = 2 => hreads[1].notifications = hreads[2].notifications

\* Two notifications tie: neither was scheduled later than the other.
Tie(n1, n2) ==
  n1.first_queued = n2.first_queued /\ n1.last_status = n2.last_status

\* C40: a read returns one notification per session id, one with the
\* latest first_queued and among those the highest last_status; two reads of
\* the same store return notifications that tie session by session, and the
\* same ones unless the store holds several that tie for a session, of
\* which the read keeps the one its rows had first.
C40_LatestUpToTies ==
  /\ \A i \in DOMAIN hreads : LatestPerSession(hreads[i])
  /\ \A i \in DOMAIN hreads : \A n \in hreads[i].notifications :
       \A k \in DOMAIN hreads[i].rows :
         LET other == hreads[i].rows[k].n
         IN other.session_id = n.session_id /\ Tie(other, n) /\ other # n
            => \E j \in 1..(k - 1) : hreads[i].rows[j].n = n
  /\ Len(hreads) = 2 =>
       \A n1 \in hreads[1].notifications :
         \E n2 \in hreads[2].notifications :
           /\ n1.session_id = n2.session_id /\ Tie(n1, n2)
           /\ n1 # n2 => \E x, y \in hstore :
                           x # y /\ x.n.session_id = y.n.session_id
                           /\ Tie(x.n, y.n)

\* Two reads of all shards, with rows in different orders, of a store with
\* three notifications of one session id: the same one kept both times, the
\* one with the highest last_status among the two queued last.
C40_Witness ==
  /\ Len(hreads) = 2 /\ hreads[1].rows # hreads[2].rows
  /\ hreads[1].queue_shards = GetAllNotificationShards
  /\ Cardinality(hstore) = 3
  /\ \A x \in hstore : x.n.session_id = 1
  /\ \E x, y \in hstore : x.n.first_queued # y.n.first_queued
  /\ \E x, y \in hstore :
       /\ x.n.first_queued = y.n.first_queued
       /\ x.n.last_status > y.n.last_status
       /\ hreads[1].notifications = {x.n}
       /\ hreads[2].notifications = {x.n}
       /\ \A z \in hstore : ~ScheduledLater(z.n, x.n)

=============================================================================
